---- MODULE Spec2Model ----
(***************************************************************************)
(* Keyspider: SSH connection pool, spider crawl, persistence upsert, layer *)
(* reconciler, agent token authentication and log watcher, modelled from   *)
(* the Python sources under src/keyspider.                                 *)
(***************************************************************************)
EXTENDS Integers, Sequences, FiniteSets, TLC

(***************************************************************************)
(* Bounds of the model.                                                    *)
(***************************************************************************)
NumCallers == 2
NumHosts == 3
MaxWrappers == 3

(* settings.ssh_max_connections and settings.ssh_per_server_limit, scaled  *)
(* down so that both caps are reached.                                     *)
MaxConnections == 2
PerServerLimit == 1

(* crawls run one after another on the same database *)
MaxCrawls == 2
(* the spider's max_depth parameter *)
MaxDepth == 1
(* last instant at which a login is written to a host's log *)
MaxTime == 5
(* key fingerprints that exist *)
NumFingerprints == 1
(* tasks with a database session of their own, the calls each makes, and   *)
(* the key and default values they pass                                    *)
NumSessions == 2
MaxCalls == 2
NumKeys == 1
NumValues == 2
(* agent tokens generated and requests the receiver answers *)
MaxTokens == 2
MaxRequests == 3
(* last day of January, counted from 0, on which a parsed line is stamped *)
MaxStampDay == 3
(* servers and AccessPath rows of the graph find_paths searches, and its   *)
(* limits of 100 paths and of length 10 scaled down so that both are met   *)
NumNodes == 4
MaxEdges == 3
MaxPaths == 2
MaxPathLength == 2
MaxFiles == 3
MaxLogSize == 3
MaxRotations == 2
MaxCycles == 4
MaxJobs == 2
(* lines of a log given to parse_log *)
MaxLogLines == 3
(* AccessEvent rows after which the receiver and the watcher's callback    *)
(* store no more                                                           *)
MaxEventRows == 2
(* iterators obtained from LogWatcher.events() and the events that wait in *)
(* the queue of one                                                        *)
NumConsumers == 2
MaxQueue == 2
(* log lines of the host that is scanned again and again *)
MaxLines == 2

(* syslog lines carry whole seconds, journald microseconds: the model's    *)
(* instants are half seconds.                                              *)
TicksPerSec == 2
(* Server.ssh_port default and the port of a discovered source *)
DefaultPort == 22
(* settings.log_max_lines_initial / log_max_lines_incremental *)
LogMaxLinesInitial == 50000
LogMaxLinesIncremental == 50000
(* agent heartbeat freshness of the short-circuit, seconds *)
AgentFreshSeconds == 300
(* settings.watcher_reconnect_delay / watcher_max_reconnect_delay *)
WatcherReconnectDelay == 5
WatcherMaxReconnectDelay == 300

Callers == 1..NumCallers
Hosts == 1..NumHosts
Fingerprints == 1..NumFingerprints
NoWrapper == 0
(* None / SQL NULL of integer-valued fields (ids and instants start at 1) *)
NULL == 0

(***************************************************************************)
(* SSHConnectionPool (core/ssh_connector.py).                              *)
(*   _pools      host:port -> list of wrappers [id, in_use]                *)
(*   _semaphore  value of asyncio.Semaphore(max_connections)               *)
(*   nextId      next fresh wrapper_id (uuid4 modelled as a counter)       *)
(*   closed      wrapper ids whose session conn.close() was called on      *)
(*   pc, host, candidate, held: position and locals of each caller         *)
(*   lastRelease is history: the id the last release_connection was given  *)
(*   and whether the pool knew it; underLock is history too: what has been *)
(*   done inside an `async with self._lock` body so far                    *)
(* asyncio runs a coroutine without interruption between two awaits that   *)
(* suspend; each `async with self._lock` body has no await inside, so the  *)
(* body is one atomic step.                                                *)
(***************************************************************************)
VARIABLES _pools, _semaphore, nextId, closed, pc, host, candidate, held, lastError,
          lastRelease, underLock

poolVars == <<_pools, _semaphore, nextId, closed, pc, host, candidate, held, lastError,
              lastRelease, underLock>>

(***************************************************************************)
(* Persistence: the tables as the spider's session sees them (committed    *)
(* rows plus staged ones) and the rows of the last commit.  A row is a     *)
(* record of its columns.                                                  *)
(***************************************************************************)
VARIABLES servers, ssh_keys, key_locations, access_events, access_paths,
          unreachable_sources, agent_status, committed

tableVars == <<servers, ssh_keys, key_locations, access_events, access_paths,
               unreachable_sources, agent_status>>
dbVars == <<tableVars, committed>>

(***************************************************************************)
(* The remote hosts: the logins each host has logged (instant, source,     *)
(* fingerprint, outcome), the key files it holds, and the current instant. *)
(***************************************************************************)
VARIABLES hostLog, hostKeys, clock

envVars == <<hostLog, hostKeys, clock>>

(***************************************************************************)
(* SpiderEngine (core/spider_engine.py): progress.queue, progress.visited, *)
(* the counters of SpiderProgress, _cancelled, the position of crawl /     *)
(* _process_server and its locals.  processLog, skipLog and lastScan are   *)
(* history: the entries the current crawl handed to _process_server, the   *)
(* reasons for which it skipped popped entries, and what each host's last  *)
(* log read saw.  loadedKeys is the identity map of the crawl's session:   *)
(* the SSHKey instances it has loaded, with the attributes they have in    *)
(* the session.  failedWrites is history: the rows a host of the current   *)
(* crawl had staged when its processing failed.  connectFailed is history: *)
(* the servers for which get_connection has raised.  notified counts the   *)
(* calls of the progress callback made by the current crawl.  sessionLog   *)
(* is history: what _process_server has done with the pooled session of    *)
(* the server it processed last (get_connection, commit,                   *)
(* release_connection).                                                    *)
(***************************************************************************)
VARIABLES queue, visited, _cancelled, progress, spc, cur, server, wrapper,
          events, keys, source_ips, crawlNo, failedWrites, loadedKeys,
          connectFailed, notified, sessionLog, processLog, skipLog, lastScan

spiderVars == <<queue, visited, _cancelled, progress, spc, cur, server, wrapper,
                events, keys, source_ips, crawlNo, failedWrites, loadedKeys,
                connectFailed, notified, sessionLog, processLog, skipLog, lastScan>>

(***************************************************************************)
(* get_or_create (db/queries.py) called from tasks that each have their    *)
(* own session on one table of the shared database.                        *)
(*   stored    the committed rows [id, key, value] of the table            *)
(*   pending   per session, the rows it has flushed and not yet committed  *)
(*   gpc, call per session, the position in get_or_create and its          *)
(*             arguments                                                   *)
(*   rowSeq    the table's id sequence                                     *)
(* peers and results are history: the calls of other sessions a call       *)
(* overlapped with, and the outcome of every call.                         *)
(***************************************************************************)
VARIABLES stored, pending, gpc, call, rowSeq, peers, results

upsertVars == <<stored, pending, gpc, call, rowSeq, peers, results>>

(***************************************************************************)
(* Agent deployment and the receiver (core/agent_manager.py,               *)
(* api/agent_receiver.py).                                                 *)
(*   tokenSeq     tokens generated so far: secrets.token_urlsafe(32)       *)
(*                returns a value never seen before                        *)
(*   sudo_events  the sudo_events table                                    *)
(* issued, lastRequest and reqCount are history: the tokens each server    *)
(* was deployed with, the last request the receiver answered and its       *)
(* status, and the number of requests answered.                            *)
(***************************************************************************)
VARIABLES tokenSeq, sudo_events, issued, lastRequest, reqCount

agentVars == <<tokenSeq, sudo_events, issued, lastRequest, reqCount>>

(***************************************************************************)
(* LogWatcher (core/watcher.py).                                           *)
(*   _running, _conn, _process, _callbacks, _event_queues: its fields      *)
(*   reconnect_delay  local of start()                                     *)
(*   wpc              position of start(): idle (not called), connect,     *)
(*                    create_process, tail, sleep, sleep_unexpected,       *)
(*                    returned                                             *)
(*   cpc, consumerQueue  position and queue of each iterator obtained      *)
(*                    from events(): new (not yet advanced), waiting (in   *)
(*                    wait_for(queue.get(), 1.0)), yielded (suspended at   *)
(*                    yield), done (generator finished, finally ran)       *)
(* stopCalled and exitVia are history: whether stop() ran, and how each    *)
(* iterator left its loop.                                                 *)
(* start(), stop() and the iterators have no await between the places      *)
(* named above, so each step below is one uninterrupted run of a           *)
(* coroutine.                                                              *)
(***************************************************************************)
VARIABLES _running, _conn, _process, _callbacks, _event_queues, reconnect_delay,
          wpc, cpc, consumerQueue, stopCalled, exitVia

watcherVars == <<_running, _conn, _process, _callbacks, _event_queues,
                 reconnect_delay, wpc, cpc, consumerQueue, stopCalled, exitVia>>

(***************************************************************************)
(* Calls of the two pure functions of the core: classified holds the       *)
(* arguments and the result of the last classify_severity, parsed those    *)
(* of the last _parse_syslog_timestamp, parsedLog the content and the      *)
(* event timestamps of the last parse_log.                                 *)
(***************************************************************************)
VARIABLES classified, parsed, parsedLog

callVars == <<classified, parsed, parsedLog>>

(***************************************************************************)
(* GraphBuilder.find_paths (core/graph_builder.py): the AccessPath rows    *)
(* in the table at the call, its arguments, adjacency, the BFS queue,      *)
(* found_paths and the position of the call.                               *)
(***************************************************************************)
VARIABLES all_paths, pathArgs, adjacency, bfsQueue, found_paths, fpc

pathVars == <<all_paths, pathArgs, adjacency, bfsQueue, found_paths, fpc>>

(***************************************************************************)
(* The key scan: the files of the scanned host, the commands run on it     *)
(* with what they printed, the keys found so far, the calls still to make, *)
(* the inventory the agent posted and the position of the scan.            *)
(***************************************************************************)
VARIABLES remoteFiles, commands, discovered, scanTodo, sentKeys, kpc

scanVars == <<remoteFiles, commands, discovered, scanTodo, sentKeys, kpc>>

(***************************************************************************)
(* The log collection of the agent: the log file of its host, the stored   *)
(* offset _log_offsets[log_path], the reads made and the batches posted    *)
(* (history), the position of collect_log_events, its local prev_offset    *)
(* and the number of cycles started.                                       *)
(***************************************************************************)
VARIABLES logGen, logSize, _log_offsets, reads, posts, lpc, prev_offset, cycles

(***************************************************************************)
(* The scan jobs: the status column of each ScanJob row (empty before the  *)
(* row exists), its job_type and seed_server_id, and the position of the   *)
(* Celery task dispatched for it.                                          *)
(***************************************************************************)
VARIABLES scan_jobs, taskPc

jobVars == <<scan_jobs, taskPc>>

logVars == <<logGen, logSize, _log_offsets, reads, posts, lpc, prev_offset, cycles>>

vars == <<poolVars, dbVars, envVars, spiderVars, upsertVars, agentVars, watcherVars,
          callVars, pathVars, scanVars, logVars, jobVars>>

(* what the steps of one component leave alone *)
notPool == <<dbVars, envVars, spiderVars, upsertVars, agentVars, watcherVars,
    callVars, pathVars, scanVars, logVars, jobVars>>
notSpider == <<poolVars, upsertVars, agentVars, watcherVars,
    callVars, pathVars, scanVars, logVars, jobVars>>
notUpsert == <<poolVars, dbVars, envVars, spiderVars, agentVars, watcherVars,
    callVars, pathVars, scanVars, logVars, jobVars>>
notAgent == <<poolVars, envVars, spiderVars, upsertVars, watcherVars,
    callVars, pathVars, scanVars, logVars, jobVars>>
notWatcher == <<poolVars, dbVars, envVars, spiderVars, upsertVars, agentVars,
    callVars, pathVars, scanVars, logVars, jobVars>>
notCalls == <<poolVars, dbVars, envVars, spiderVars, upsertVars, agentVars,
    watcherVars, pathVars, scanVars, logVars, jobVars>>
notPaths == <<poolVars, dbVars, envVars, spiderVars, upsertVars, agentVars,
    watcherVars, callVars, scanVars, logVars, jobVars>>
notScan == <<poolVars, dbVars, envVars, spiderVars, upsertVars, agentVars,
    watcherVars, callVars, pathVars, logVars, jobVars>>
notLog == <<poolVars, dbVars, envVars, spiderVars, upsertVars, agentVars,
    watcherVars, callVars, pathVars, scanVars, jobVars>>
notJobs == <<poolVars, dbVars, envVars, spiderVars, upsertVars, agentVars,
    watcherVars, callVars, pathVars, scanVars, logVars>>

InitPool ==
    /\ _pools = [k \in Hosts |-> <<>>]
    /\ _semaphore = MaxConnections
    /\ nextId = 1
    /\ closed = {}
    /\ pc = [c \in Callers |-> "idle"]
    /\ host = [c \in Callers |-> 1]
    /\ candidate = [c \in Callers |-> NoWrapper]
    /\ held = [c \in Callers |-> NoWrapper]
    /\ lastError = [c \in Callers |-> "none"]
    /\ lastRelease = [id |-> NoWrapper, known |-> FALSE]
    /\ underLock = {}

(* a scan that takes the first wrapper of the list, lent or not *)
FirstAny(ws) == IF ws = <<>> THEN 0 ELSE 1

(* index of the first wrapper of a list that is not in use, 0 if none:    *)
(* the `for wrapper in self._pools[key]: if not wrapper.in_use` scan.      *)
FirstIdle(ws) ==
    LET idle == {i \in 1..Len(ws) : ~ws[i].in_use}
    IN  IF idle = {} THEN 0 ELSE CHOOSE i \in idle : \A j \in idle : i <= j

(* list.remove(wrapper): the list without the wrapper of that id *)
RemoveWrapper(ws, id) == SelectSeq(ws, LAMBDA w : w.id # id)

(* the wrapper ids a list holds *)
WrapperIds(ws) == {ws[i].id : i \in 1..Len(ws)}

(* every wrapper id the pool map holds *)
PooledIds == UNION {WrapperIds(_pools[k]) : k \in Hosts}

RECURSIVE SumLen(_, _)
SumLen(f, S) ==
    IF S = {} THEN 0
    ELSE LET k == CHOOSE x \in S : TRUE IN Len(f[k]) + SumLen(f, S \ {k})

(* number of sessions the pool holds, borrowed plus idle, over all hosts *)
TotalSessions == SumLen(_pools, Hosts)

(* the per-server cap test of get_connection (line 113) *)
AtPerServerLimit(ws) == Len(ws) >= PerServerLimit

(* get_connection, line 98: await self._semaphore.acquire() *)
GetAcquire(c, h) ==
    /\ pc[c] = "idle"
    /\ UNCHANGED notPool
    /\ _semaphore > 0
    /\ _semaphore' = _semaphore - 1
    /\ host' = [host EXCEPT ![c] = h]
    /\ pc' = [pc EXCEPT ![c] = "find"]
    /\ lastError' = [lastError EXCEPT ![c] = "none"]
    /\ UNCHANGED <<_pools, nextId, closed, candidate, held,
                   lastRelease, underLock>>

(* get_connection, lines 102-117: first block under the lock *)
GetFind(c) ==
    /\ pc[c] = "find"
    /\ UNCHANGED notPool
    /\ LET k == host[c]
           i == FirstIdle(_pools[k])
       IN  IF i # 0
           THEN /\ _pools' = [_pools EXCEPT ![k][i].in_use = TRUE]
                /\ candidate' = [candidate EXCEPT ![c] = _pools[k][i].id]
                /\ pc' = [pc EXCEPT ![c] = "health"]
                /\ UNCHANGED <<_semaphore, lastError>>
           ELSE IF AtPerServerLimit(_pools[k])
           THEN /\ _semaphore' = _semaphore + 1
                /\ lastError' = [lastError EXCEPT ![c] = "limit"]
                /\ pc' = [pc EXCEPT ![c] = "idle"]
                /\ UNCHANGED <<_pools, candidate>>
           ELSE /\ pc' = [pc EXCEPT ![c] = "create"]
                /\ UNCHANGED <<_pools, _semaphore, candidate, lastError>>
    /\ UNCHANGED <<nextId, closed, host, held,
                   lastRelease>>
    /\ underLock' = underLock \cup {"_pools", "_semaphore"}

(* get_connection, lines 120-126: `echo ok` succeeds on a session that is  *)
(* still open; the candidate is returned.                                  *)
HealthOk(c) ==
    /\ pc[c] = "health"
    /\ UNCHANGED notPool
    /\ candidate[c] \notin closed
    /\ held' = [held EXCEPT ![c] = candidate[c]]
    /\ candidate' = [candidate EXCEPT ![c] = NoWrapper]
    /\ pc' = [pc EXCEPT ![c] = "holding"]
    /\ UNCHANGED <<_pools, _semaphore, nextId, closed, host, lastError,
                   lastRelease, underLock>>

(* get_connection, lines 127-132: the health check raises or times out;    *)
(* the candidate is removed under the lock and a new session is opened.    *)
HealthFail(c) ==
    /\ pc[c] = "health"
    /\ UNCHANGED notPool
    /\ _pools' = [_pools EXCEPT ![host[c]] = RemoveWrapper(@, candidate[c])]
    /\ candidate' = [candidate EXCEPT ![c] = NoWrapper]
    /\ pc' = [pc EXCEPT ![c] = "create"]
    /\ UNCHANGED <<_semaphore, nextId, closed, host, held, lastError,
                   lastRelease>>
    /\ underLock' = underLock \cup {"_pools"}

(* get_connection, lines 135-143: _create_connection returns a session;    *)
(* the new wrapper (in_use=True) is appended under the lock and returned.  *)
CreateOk(c) ==
    /\ pc[c] = "create"
    /\ UNCHANGED notPool
    /\ nextId <= MaxWrappers
    /\ _pools' = [_pools EXCEPT ![host[c]] =
                     Append(@, [id |-> nextId, in_use |-> TRUE])]
    /\ held' = [held EXCEPT ![c] = nextId]
    /\ nextId' = nextId + 1
    /\ pc' = [pc EXCEPT ![c] = "holding"]
    /\ UNCHANGED <<_semaphore, closed, host, candidate, lastError,
                   lastRelease>>
    /\ underLock' = underLock \cup {"_pools"}

(* get_connection, line 135 with _create_connection lines 85-87: every     *)
(* attempt failed, ConnectionError propagates out of get_connection.       *)
CreateFail(c) ==
    /\ pc[c] = "create"
    /\ UNCHANGED notPool
    /\ lastError' = [lastError EXCEPT ![c] = "connect"]
    /\ pc' = [pc EXCEPT ![c] = "idle"]
    /\ UNCHANGED <<_pools, _semaphore, nextId, closed, host, candidate, held,
                   lastRelease, underLock>>

(* a release that clears the flag of every handle *)
ReleasedPoolsAll(id) ==
    [k \in Hosts |->
        [i \in 1..Len(_pools[k]) |-> [_pools[k][i] EXCEPT !.in_use = FALSE]]]

(* the pool map after release_connection(id): in_use cleared on a match *)
ReleasedPools(id) ==
    [k \in Hosts |->
        [i \in 1..Len(_pools[k]) |->
            IF _pools[k][i].id = id
            THEN [_pools[k][i] EXCEPT !.in_use = FALSE]
            ELSE _pools[k][i]]]

(* release_connection(wrapper_id) by the caller that borrowed the handle *)
ReleaseConnection(c) ==
    /\ pc[c] = "holding"
    /\ UNCHANGED notPool
    /\ _pools' = ReleasedPools(held[c])
    /\ _semaphore' = _semaphore + 1
    /\ held' = [held EXCEPT ![c] = NoWrapper]
    /\ lastRelease' = [id |-> held[c], known |-> held[c] \in PooledIds]
    /\ pc' = [pc EXCEPT ![c] = "idle"]
    /\ UNCHANGED <<nextId, closed, host, candidate, lastError>>
    /\ underLock' = underLock \cup {"_pools", "_semaphore"}

(* close_connection(wrapper_id) by the caller that borrowed the handle *)
CloseConnection(c) ==
    /\ pc[c] = "holding"
    /\ UNCHANGED notPool
    /\ closed' = IF held[c] \in PooledIds THEN closed \cup {held[c]} ELSE closed
    /\ _pools' = [k \in Hosts |-> RemoveWrapper(_pools[k], held[c])]
    /\ _semaphore' = _semaphore + 1
    /\ held' = [held EXCEPT ![c] = NoWrapper]
    /\ pc' = [pc EXCEPT ![c] = "idle"]
    /\ UNCHANGED <<nextId, host, candidate, lastError,
                   lastRelease>>
    /\ underLock' = underLock \cup {"_pools", "_semaphore"}
                      \cup (IF held[c] \in PooledIds THEN {"conn.close"} ELSE {})

(* close_all(): every pooled session is closed and the map is cleared *)
CloseAll ==
    /\ PooledIds # {}
    /\ UNCHANGED notPool
    /\ closed' = closed \cup PooledIds
    /\ _pools' = [k \in Hosts |-> <<>>]
    /\ UNCHANGED <<_semaphore, nextId, pc, host, candidate, held, lastError,
                   lastRelease>>
    /\ underLock' = underLock \cup {"_pools", "conn.close", "_pools.clear"}

NextPool ==
    \/ \E c \in Callers, h \in Hosts : GetAcquire(c, h)
    \/ \E c \in Callers : GetFind(c)
    \/ \E c \in Callers : HealthOk(c)
    \/ \E c \in Callers : HealthFail(c)
    \/ \E c \in Callers : CreateOk(c)
    \/ \E c \in Callers : CreateFail(c)
    \/ \E c \in Callers : ReleaseConnection(c)
    \/ \E c \in Callers : CloseConnection(c)
    \/ CloseAll

(***************************************************************************)
(* A task and the pool it creates (workers/spider_tasks.py lines 35-105,   *)
(* and scan_tasks, key_tasks, api/agents alike): the pool is local to the  *)
(* task, borrowed from inside the try body, and closed in the finally.     *)
(***************************************************************************)
(* close_all has run: only close_all clears the map *)
PoolClosed == "_pools.clear" \in underLock

(* a finally that does not wait for the borrowers *)
BorrowersAny == TRUE

(* the try body is over: every get_connection in it was followed by its    *)
(* release in the finally of _process_server (spider_engine.py lines       *)
(* 165-166) or has raised                                                  *)
BorrowersDone == \A c \in Callers : pc[c] = "idle"

(* finally: await pool.close_all() (spider_tasks.py lines 104-105) *)
TaskCloseAll ==
    /\ ~PoolClosed
    /\ BorrowersDone
    /\ closed' = closed \cup PooledIds
    /\ _pools' = [k \in Hosts |-> <<>>]
    /\ underLock' = underLock \cup {"_pools", "conn.close", "_pools.clear"}
    /\ UNCHANGED <<_semaphore, nextId, pc, host, candidate, held, lastError,
                   lastRelease, notPool>>

NextTask ==
    \/ \E c \in Callers, h \in Hosts : ~PoolClosed /\ GetAcquire(c, h)
    \/ \E c \in Callers : GetFind(c)
    \/ \E c \in Callers : HealthOk(c)
    \/ \E c \in Callers : HealthFail(c)
    \/ \E c \in Callers : CreateOk(c)
    \/ \E c \in Callers : CreateFail(c)
    \/ \E c \in Callers : ReleaseConnection(c)
    \/ \E c \in Callers : CloseConnection(c)
    \/ TaskCloseAll

(***************************************************************************)
(* Persistence helpers (db/queries.py and the column defaults of models/). *)
(***************************************************************************)
(* {**a, **b}: the fields of both, b's value where both have the field *)
Merge(a, b) ==
    [f \in DOMAIN a \cup DOMAIN b |-> IF f \in DOMAIN b THEN b[f] ELSE a[f]]

(* select(model).filter_by(kwargs...) *)
Matching(table, kwargs) ==
    {r \in table : \A f \in DOMAIN kwargs : r[f] = kwargs[f]}

(* get_or_create(session, model, defaults, kwargs...): the matching row,   *)
(* or                                                                      *)
(* a new row built from {**kwargs, **defaults} over the column defaults,   *)
(* added and flushed (the id is the next of the table's sequence).         *)
GetOrCreate(table, columns, defaults, kwargs) ==
    LET found == Matching(table, kwargs)
    IN  IF found # {}
        THEN [instance |-> CHOOSE r \in found : TRUE,
              created |-> FALSE,
              table |-> table]
        ELSE LET params == Merge(kwargs, defaults)
                 row == Merge(Merge(columns, params),
                              [id |-> Cardinality(table) + 1])
             IN  [instance |-> row, created |-> TRUE, table |-> table \cup {row}]

(* an attribute assignment on a loaded row *)
UpdateRow(table, old, new) == (table \ {old}) \cup {new}

(* session.get by primary key *)
RowById(table, id) == CHOOSE r \in table : r.id = id

ServerColumns ==
    [id |-> NULL, hostname |-> NULL, ip_address |-> NULL, ssh_port |-> DefaultPort,
     is_reachable |-> TRUE, last_scanned_at |-> NULL, discovered_via |-> "",
     prefer_agent |-> FALSE, scan_watermark |-> "", last_log_size |-> NULL]

SSHKeyColumns ==
    [id |-> NULL, fingerprint_sha256 |-> NULL, is_host_key |-> FALSE,
     file_mtime |-> NULL]

KeyLocationColumns ==
    [id |-> NULL, ssh_key_id |-> NULL, server_id |-> NULL, file_path |-> "",
     file_type |-> "", graph_layer |-> "authorization", file_mtime |-> NULL,
     last_verified_at |-> NULL]

AccessEventColumns ==
    [id |-> NULL, target_server_id |-> NULL, source_ip |-> NULL,
     source_server_id |-> NULL, ssh_key_id |-> NULL, fingerprint |-> NULL,
     username |-> "", event_type |-> "", event_time |-> NULL, log_source |-> ""]

AccessPathColumns ==
    [id |-> NULL, source_server_id |-> NULL, target_server_id |-> NULL,
     ssh_key_id |-> NULL, username |-> "", first_seen_at |-> NULL,
     last_seen_at |-> NULL, event_count |-> 1, is_active |-> TRUE,
     is_authorized |-> FALSE, is_used |-> FALSE]

UnreachableSourceColumns ==
    [id |-> NULL, source_ip |-> NULL, fingerprint |-> NULL,
     target_server_id |-> NULL, first_seen_at |-> NULL, last_seen_at |-> NULL,
     event_count |-> 1, severity |-> "high", acknowledged |-> FALSE]

AgentStatusColumns ==
    [id |-> NULL, server_id |-> NULL, deployment_status |-> "not_deployed",
     last_heartbeat_at |-> NULL, last_event_at |-> NULL,
     agent_token_hash |-> "", agent_version |-> ""]

(* the rows a commit makes durable *)
Snapshot(sv, sk, kl, ae, ap, us, ag) ==
    [servers |-> sv, ssh_keys |-> sk, key_locations |-> kl,
     access_events |-> ae, access_paths |-> ap, unreachable_sources |-> us,
     agent_status |-> ag]

(* the durable rows of one table after a commit of another session (the    *)
(* receiver's, a deployment's): the rows that session changed replace      *)
(* their durable versions, what the spider has staged stays staged         *)
Durable(before, view, changed) ==
    {r \in before : ~\E n \in changed \ view : n.id = r.id} \cup (changed \ view)

ReceiverCommit(sv, sk, kl, ae, ap, us, ag) ==
    Snapshot(Durable(committed.servers, servers, sv),
             Durable(committed.ssh_keys, ssh_keys, sk),
             Durable(committed.key_locations, key_locations, kl),
             Durable(committed.access_events, access_events, ae),
             Durable(committed.access_paths, access_paths, ap),
             Durable(committed.unreachable_sources, unreachable_sources, us),
             Durable(committed.agent_status, agent_status, ag))

(* the address of the server a crawl task is given as its seed *)
SeedHost == 1

(* one server was added by hand before any crawl (a crawl task's seed is a *)
(* row of the servers table).                                              *)
InitDb ==
    /\ servers = {Merge(ServerColumns,
                        [id |-> 1, hostname |-> SeedHost, ip_address |-> SeedHost,
                         discovered_via |-> "manual"])}
    /\ ssh_keys = {}
    /\ key_locations = {}
    /\ access_events = {}
    /\ access_paths = {}
    /\ unreachable_sources = {}
    /\ agent_status = {}
    /\ committed = Snapshot(servers, {}, {}, {}, {}, {}, {})

InitEnv ==
    /\ hostLog = [h \in Hosts |-> <<>>]
    /\ hostKeys = [h \in Hosts |-> {}]
    /\ clock = TicksPerSec

NoProgress ==
    [servers_scanned |-> 0, keys_found |-> 0, events_parsed |-> 0,
     unreachable_found |-> 0]

InitSpider ==
    /\ queue = <<>>
    /\ visited = {}
    /\ _cancelled = FALSE
    /\ progress = NoProgress
    /\ spc = "idle"
    /\ cur = [hostname |-> NULL, port |-> NULL, depth |-> 0]
    /\ server = NULL
    /\ wrapper = NULL
    /\ events = <<>>
    /\ keys = {}
    /\ source_ips = {}
    /\ crawlNo = 0
    /\ loadedKeys = {}
    /\ connectFailed = {}
    /\ notified = 0
    /\ sessionLog = <<>>
    /\ failedWrites = {}
    /\ processLog = <<>>
    /\ skipLog = {}
    /\ lastScan = [h \in Hosts |-> [done |-> FALSE, len |-> 0, prev |-> -1]]

(***************************************************************************)
(* The hosts' side.  Logins are logged and key files appear between        *)
(* crawls; a scan reads whatever is there when it reaches the host.        *)
(***************************************************************************)
HostLogin(h, src, fp, type) ==
    /\ spc = "idle"
    /\ clock < MaxTime
    /\ clock' = clock + 1
    /\ hostLog' = [hostLog EXCEPT ![h] =
                      Append(@, [t |-> clock + 1, source_ip |-> src,
                                 username |-> "root", event_type |-> type,
                                 fingerprint |-> fp])]
    /\ UNCHANGED <<hostKeys, dbVars, spiderVars, notSpider>>

(* a login logged by a host whose clock is not the spider's: the line is   *)
(* stamped t, whatever the lines before it are stamped                     *)
HostLoginAt(h, src, t) ==
    /\ spc = "idle"
    /\ Len(hostLog[h]) < MaxLines
    /\ hostLog' = [hostLog EXCEPT ![h] =
                      Append(@, [t |-> t, source_ip |-> src,
                                 username |-> "root", event_type |-> "accepted",
                                 fingerprint |-> NULL])]
    /\ UNCHANGED <<hostKeys, clock, dbVars, spiderVars, notSpider>>

HostKeyFile(h, fp, ftype) ==
    /\ spc = "idle"
    /\ ~\E k \in hostKeys[h] : k.fingerprint_sha256 = fp /\ k.file_type = ftype
    /\ hostKeys' = [hostKeys EXCEPT ![h] =
                       @ \cup {[fingerprint_sha256 |-> fp, file_type |-> ftype,
                                file_path |-> ftype, file_mtime |-> clock]}]
    /\ UNCHANGED <<hostLog, clock, dbVars, spiderVars, notSpider>>

(***************************************************************************)
(* SpiderEngine.crawl and the task around it (workers/spider_tasks.py).    *)
(***************************************************************************)
(* server_key = f"{hostname}:{port}" *)
ServerKey(hostname, port) == <<hostname, port>>

(* _spider_crawl: a new session and engine, crawl(seed.ip, seed.port) *)
CrawlStart(seed) ==
    /\ spc = "idle"
    /\ crawlNo < MaxCrawls
    /\ seed \in servers
    /\ crawlNo' = crawlNo + 1
    /\ loadedKeys' = {}
    /\ notified' = 0
    /\ sessionLog' = <<>>
    /\ failedWrites' = {}
    /\ queue' = <<[hostname |-> seed.ip_address, port |-> seed.ssh_port, depth |-> 0]>>
    /\ visited' = {}
    /\ progress' = NoProgress
    /\ _cancelled' = FALSE
    /\ spc' = "loop"
    /\ processLog' = <<>>
    /\ skipLog' = {}
    /\ UNCHANGED <<cur, server, wrapper, events, keys, source_ips, lastScan, connectFailed,
                   dbVars, envVars, notSpider>>

(* the skip test without its depth limit *)
SkipReasonNoDepthLimit(entry) ==
    IF ServerKey(entry.hostname, entry.port) \in visited THEN "visited" ELSE ""

(* the test that skips a popped entry (lines 79-82): the reason, or "" *)
SkipReason(entry) ==
    IF ServerKey(entry.hostname, entry.port) \in visited THEN "visited"
    ELSE IF entry.depth > MaxDepth THEN "depth"
    ELSE ""

(* SpiderEngine.cancel (lines 67-69), called while crawl is running *)
Cancel ==
    /\ spc # "idle"
    /\ ~_cancelled
    /\ _cancelled' = TRUE
    /\ UNCHANGED <<queue, visited, progress, spc, cur, server, wrapper, events, keys,
                   source_ips, crawlNo, failedWrites, loadedKeys, connectFailed, notified, sessionLog, processLog, skipLog,
                   lastScan, dbVars, envVars, notSpider>>

(* a loop that goes on for as long as the frontier has entries *)
WhileQueue == queue # <<>>

(* line 75: while self.progress.queue and not self._cancelled *)
WhileCondition == queue # <<>> /\ ~_cancelled

(* a crawl that does not remember the servers it has processed *)
MarkNothing(seen, server_key) == seen

(* line 84: self.progress.visited.add(server_key) *)
MarkVisited(seen, server_key) == seen \cup {server_key}

(* one iteration of the while loop up to the call of _process_server *)
CrawlPop ==
    /\ spc = "loop"
    /\ WhileCondition
    /\ LET entry == Head(queue)
           server_key == ServerKey(entry.hostname, entry.port)
       IN  /\ queue' = Tail(queue)
           /\ IF SkipReason(entry) # ""
              THEN /\ skipLog' = skipLog \cup {SkipReason(entry)}
                   /\ UNCHANGED <<visited, cur, spc, processLog, notified>>
              ELSE /\ visited' = MarkVisited(visited, server_key)
                   /\ cur' = entry
                   /\ spc' = "upsert"
                   /\ processLog' = Append(processLog,
                                      [crawl |-> crawlNo, key |-> server_key,
                                       depth |-> entry.depth])
                   /\ notified' = notified + 1
                   /\ UNCHANGED skipLog
    /\ UNCHANGED <<_cancelled, progress, server, wrapper, events, keys, source_ips,
                   crawlNo, failedWrites, loadedKeys, connectFailed, sessionLog, lastScan,
                   dbVars, envVars, notSpider>>

(* the loop ends, crawl returns; the task records the result and commits   *)
(* (spider_tasks.py lines 78-87).                                          *)
CrawlReturn ==
    /\ spc = "loop"
    /\ ~WhileCondition
    /\ spc' = "idle"
    /\ committed' = Snapshot(servers, ssh_keys, key_locations, access_events,
                             access_paths, unreachable_sources, agent_status)
    /\ UNCHANGED <<tableVars, queue, visited, _cancelled, progress, cur, server,
                   wrapper, events, keys, source_ips, crawlNo, failedWrites, loadedKeys, connectFailed, notified, sessionLog, processLog,
                   skipLog, lastScan, envVars, notSpider>>

(***************************************************************************)
(* SpiderEngine._process_server, one step per awaited stage.               *)
(***************************************************************************)
(* a freshness test that lets a heartbeat of exactly 300 seconds through *)
AgentFreshInclusive(agent) ==
    /\ agent.last_heartbeat_at # NULL
    /\ (clock - agent.last_heartbeat_at) <= AgentFreshSeconds * TicksPerSec

(* lines 125-127: the agent has a heartbeat less than 300 seconds old *)
AgentFresh(agent) ==
    /\ agent.last_heartbeat_at # NULL
    /\ (clock - agent.last_heartbeat_at) < AgentFreshSeconds * TicksPerSec

(* lines 100-132: upsert the Server row, then the agent short-circuit *)
UpsertServer ==
    /\ spc = "upsert"
    /\ LET goc == GetOrCreate(servers, ServerColumns,
                      [hostname |-> cur.hostname, ip_address |-> cur.hostname,
                       ssh_port |-> cur.port,
                       discovered_via |-> IF cur.depth > 0 THEN "scan" ELSE "manual",
                       is_reachable |-> TRUE],
                      [ip_address |-> cur.hostname, ssh_port |-> cur.port])
           srv == goc.instance
           agents == {a \in agent_status :
                         a.server_id = srv.id /\ a.deployment_status = "active"}
       IN  IF srv.prefer_agent /\ \E a \in agents : AgentFresh(a)
              THEN /\ server' = NULL
                   /\ servers' = UpdateRow(goc.table, srv,
                                           [srv EXCEPT !.last_scanned_at = clock])
                   /\ progress' = [progress EXCEPT !.servers_scanned = @ + 1]
                   /\ committed' = Snapshot(servers', ssh_keys, key_locations,
                                            access_events, access_paths,
                                            unreachable_sources, agent_status)
                   /\ spc' = "loop"
              ELSE /\ server' = srv.id
                   /\ servers' = goc.table
                   /\ spc' = "connect"
                   /\ UNCHANGED <<progress, committed>>
    /\ UNCHANGED <<ssh_keys, key_locations, access_events, access_paths,
                   unreachable_sources, agent_status, queue, visited, _cancelled,
                   cur, wrapper, events, keys, source_ips, crawlNo, failedWrites, loadedKeys, connectFailed, notified, sessionLog, processLog,
                   skipLog, lastScan, envVars, notSpider>>

(* line 135: pool.get_connection returns a wrapper *)
ConnectOk ==
    /\ spc = "connect"
    /\ wrapper' = 1
    /\ sessionLog' = <<"get_connection">>
    /\ spc' = "logs"
    /\ UNCHANGED <<queue, visited, _cancelled, progress, cur, server, events, keys,
                   source_ips, crawlNo, failedWrites, loadedKeys, connectFailed, notified, processLog, skipLog, lastScan, dbVars,
                   envVars, notSpider>>

(* the rows that the processing of a host has added or changed and that   *)
(* are not committed: its key locations, its events, and its own row       *)
StagedFor(server_id) ==
    {[table |-> "key_locations", row |-> l] :
        l \in {x \in key_locations \ committed.key_locations : x.server_id = server_id}}
    \cup {[table |-> "access_events", row |-> e] :
        e \in {x \in access_events \ committed.access_events :
                  x.target_server_id = server_id}}
    \cup {[table |-> "servers", row |-> r] :
        r \in {x \in servers \ committed.servers : x.id = server_id}}

(* line 135 raises ConnectionError; crawl logs it and continues (90-94) *)
ConnectFail ==
    /\ spc = "connect"
    /\ spc' = "loop"
    /\ server' = NULL
    /\ failedWrites' = failedWrites \cup StagedFor(server)
    /\ connectFailed' = connectFailed \cup {server}
    /\ UNCHANGED <<queue, visited, _cancelled, progress, cur, wrapper,
                   events, keys, source_ips, crawlNo, loadedKeys, notified, sessionLog, processLog, skipLog,
                   lastScan, dbVars, envVars, notSpider>>

(* the last n elements of a sequence (journalctl -n, read_file_tail) *)
LastN(seq, n) ==
    IF Len(seq) <= n THEN seq ELSE SubSeq(seq, Len(seq) - n + 1, Len(seq))

(* datetime.isoformat() and datetime.fromisoformat() *)
IsoFormat(t) == ToString(t)
FromIsoFormat(str) == CHOOSE t \in 0..MaxTime : ToString(t) = str

(* a syslog line carries the second of the login, journald its instant *)
FloorSec(t) == (t \div TicksPerSec) * TicksPerSec

AuthEvent(e, ts) ==
    [timestamp |-> ts, source_ip |-> e.source_ip, username |-> e.username,
     event_type |-> e.event_type, fingerprint |-> e.fingerprint]

(* parse_journalctl_output: timestamp from __REALTIME_TIMESTAMP *)
ParseJournalctlOutput(entries) ==
    [i \in 1..Len(entries) |-> AuthEvent(entries[i], entries[i].t)]

(* parse_log over syslog lines: timestamp from `Mon DD HH:MM:SS` *)
ParseLog(lines) ==
    [i \in 1..Len(lines) |-> AuthEvent(lines[i], FloorSec(lines[i].t))]

(* journalctl -u sshd --output=json -n N [--since=watermark] on the host *)
JournalctlOutput(h, watermark, max_lines) ==
    LastN(SelectSeq(hostLog[h],
                    LAMBDA e : watermark = "" \/ e.t >= FromIsoFormat(watermark)),
          max_lines)

(* events = [e for e in events if e.timestamp > wm] when a watermark is set *)
WatermarkFilter(evs, watermark) ==
    IF watermark # ""
    THEN SelectSeq(evs, LAMBDA e : e.timestamp > FromIsoFormat(watermark))
    ELSE evs

(* max(e.timestamp for e in events) *)
LatestTimestamp(evs) ==
    CHOOSE m \in {evs[i].timestamp : i \in 1..Len(evs)} :
        \A i \in 1..Len(evs) : evs[i].timestamp <= m

(* _parse_server_logs (lines 168-249): journalctl when it answers with     *)
(* output, else the tail of the log file; journal_ok is whether the        *)
(* journalctl command ran with exit status 0 within its 30 s deadline.     *)
ParseServerLogs(journal_ok) ==
    /\ spc = "logs"
    /\ LET srv == RowById(servers, server)
           h == srv.ip_address
           wm == srv.scan_watermark
           max_lines == IF wm # "" THEN LogMaxLinesIncremental ELSE LogMaxLinesInitial
           stdout == JournalctlOutput(h, wm, max_lines)
           use_journal == journal_ok /\ stdout # <<>>
           current_size == Len(hostLog[h])
           rotated == srv.last_log_size # NULL /\ current_size < srv.last_log_size
           content == LastN(hostLog[h],
                            IF rotated THEN LogMaxLinesInitial ELSE max_lines)
           result == IF use_journal
                     THEN WatermarkFilter(ParseJournalctlOutput(stdout), wm)
                     ELSE IF content # <<>>
                     THEN WatermarkFilter(ParseLog(content), wm)
                     ELSE <<>>
           new_wm == IF result # <<>> THEN IsoFormat(LatestTimestamp(result)) ELSE wm
           new_size == IF ~use_journal /\ content # <<>>
                       THEN current_size ELSE srv.last_log_size
       IN  /\ servers' = UpdateRow(servers, srv,
                            [srv EXCEPT !.scan_watermark = new_wm,
                                        !.last_log_size = new_size])
           /\ events' = result
           /\ progress' = [progress EXCEPT !.events_parsed = @ + Len(result)]
           /\ lastScan' = [lastScan EXCEPT ![h] =
                              [done |-> FALSE, len |-> current_size,
                               prev |-> IF @.done THEN @.len ELSE -1]]
    /\ spc' = "keys"
    /\ UNCHANGED <<ssh_keys, key_locations, access_events, access_paths,
                   unreachable_sources, agent_status, committed, queue, visited,
                   _cancelled, cur, server, wrapper, keys, source_ips, crawlNo, failedWrites, loadedKeys, connectFailed, notified, sessionLog,
                   processLog, skipLog, envVars, notSpider>>

(* _scan_server_keys (lines 251-261): the host's key files, or [] when the *)
(* scan raises.                                                            *)
ScanServerKeys(ok) ==
    /\ spc = "keys"
    /\ keys' = IF ok THEN hostKeys[RowById(servers, server).ip_address] ELSE {}
    /\ progress' = [progress EXCEPT !.keys_found = @ + Cardinality(keys')]
    /\ spc' = "store_keys"
    /\ UNCHANGED <<queue, visited, _cancelled, cur, server, wrapper, events,
                   source_ips, crawlNo, failedWrites, loadedKeys, connectFailed, notified, sessionLog, processLog, skipLog, lastScan, dbVars,
                   envVars, notSpider>>

(* a layer rule that files what a scan finds under the usage layer *)
GraphLayerUsage(file_type) ==
    IF file_type = "authorized_keys" THEN "usage" ELSE "authorization"

(* line 292: the graph layer of a location the key scan found *)
GraphLayer(file_type) ==
    IF file_type = "authorized_keys" THEN "authorization" ELSE "authorization"

(* the instance a query of the spider's session returns for a row: the     *)
(* session is made with expire_on_commit=False (db/session.py line 40),    *)
(* so an SSHKey it has loaded before stays in its identity map with the    *)
(* attributes it had then, and a later select of the same row hands back   *)
(* that instance without refreshing it.                                    *)
SessionInstance(loaded, row) ==
    IF \E l \in loaded : l.id = row.id
    THEN CHOOSE l \in loaded : l.id = row.id
    ELSE row

(* one iteration of the loop of _store_keys (lines 265-315); the flush     *)
(* writes the columns of the instance that were assigned a new value.      *)
StoreOneKey(st, dk, server_id) ==
    IF dk.fingerprint_sha256 = NULL THEN st
    ELSE
    LET gk == GetOrCreate(st.ssh_keys, SSHKeyColumns, [is_host_key |-> FALSE],
                          [fingerprint_sha256 |-> dk.fingerprint_sha256])
        row == gk.instance
        k0 == SessionInstance(st.loaded, row)
        k1 == IF dk.file_mtime # NULL
                 /\ (k0.file_mtime = NULL \/ dk.file_mtime < k0.file_mtime)
              THEN [k0 EXCEPT !.file_mtime = dk.file_mtime]
              ELSE k0
        gl == GetOrCreate(st.key_locations, KeyLocationColumns,
                          [file_type |-> dk.file_type,
                           graph_layer |-> GraphLayer(dk.file_type),
                           file_mtime |-> dk.file_mtime,
                           last_verified_at |-> clock],
                          [ssh_key_id |-> k0.id, server_id |-> server_id,
                           file_path |-> dk.file_path])
        l0 == gl.instance
        l1 == IF gl.created THEN l0
              ELSE [l0 EXCEPT !.last_verified_at = clock,
                              !.file_mtime = dk.file_mtime]
    IN  [ssh_keys |-> IF k1 = k0 THEN gk.table
                      ELSE UpdateRow(gk.table, row,
                                     [row EXCEPT !.file_mtime = k1.file_mtime]),
         key_locations |-> UpdateRow(gl.table, l0, l1),
         loaded |-> {l \in st.loaded : l.id # k1.id} \cup {k1}]

RECURSIVE StoreKeyList(_, _, _)
StoreKeyList(st, dks, server_id) ==
    IF dks = {} THEN st
    ELSE LET dk == CHOOSE k \in dks : TRUE
         IN  StoreKeyList(StoreOneKey(st, dk, server_id), dks \ {dk}, server_id)

(* _store_keys (lines 263-315) *)
StoreKeys ==
    /\ spc = "store_keys"
    /\ LET st == StoreKeyList([ssh_keys |-> ssh_keys, key_locations |-> key_locations,
                               loaded |-> loadedKeys],
                              keys, server)
       IN  /\ ssh_keys' = st.ssh_keys
           /\ key_locations' = st.key_locations
           /\ loadedKeys' = st.loaded
    /\ spc' = "store_events"
    /\ UNCHANGED <<servers, access_events, access_paths, unreachable_sources,
                   agent_status, committed, queue, visited, _cancelled, progress,
                   cur, server, wrapper, events, keys, source_ips, crawlNo, failedWrites,
                   connectFailed, notified, sessionLog, processLog, skipLog, lastScan, envVars,
                   notSpider>>

(* key_map.get(event.fingerprint) if event.fingerprint else None *)
KeyMapGet(fp) ==
    IF fp # NULL /\ \E k \in ssh_keys : k.fingerprint_sha256 = fp
    THEN (CHOOSE k \in ssh_keys : k.fingerprint_sha256 = fp).id
    ELSE NULL

(* ip_map.get(event.source_ip) *)
IpMapGet(ip) ==
    IF \E s \in servers : s.ip_address = ip
    THEN (CHOOSE s \in servers : s.ip_address = ip).id
    ELSE NULL

(* the AccessEvent built for one parsed event (lines 347-362) *)
NewAccessEvent(event, id, server_id) ==
    Merge(AccessEventColumns,
          [id |-> id, target_server_id |-> server_id,
           source_ip |-> event.source_ip,
           source_server_id |-> IpMapGet(event.source_ip),
           ssh_key_id |-> KeyMapGet(event.fingerprint),
           fingerprint |-> event.fingerprint, username |-> event.username,
           event_type |-> event.event_type, event_time |-> event.timestamp])

(* one iteration of the access-path loop (lines 367-391) *)
StoreOnePath(paths, event, server_id) ==
    IF event.event_type # "accepted" THEN paths
    ELSE
    LET g == GetOrCreate(paths, AccessPathColumns,
                         [first_seen_at |-> event.timestamp,
                          last_seen_at |-> event.timestamp, is_used |-> TRUE],
                         [source_server_id |-> IpMapGet(event.source_ip),
                          target_server_id |-> server_id,
                          ssh_key_id |-> KeyMapGet(event.fingerprint),
                          username |-> event.username])
        path == g.instance
    IN  IF g.created THEN g.table
        ELSE UpdateRow(g.table, path,
                       [path EXCEPT !.last_seen_at = event.timestamp,
                                    !.event_count = @ + 1,
                                    !.is_used = TRUE])

RECURSIVE StorePathList(_, _, _)
StorePathList(paths, evs, server_id) ==
    IF evs = <<>> THEN paths
    ELSE StorePathList(StoreOnePath(paths, Head(evs), server_id), Tail(evs), server_id)

(* _store_events (lines 317-393) *)
StoreEvents ==
    /\ spc = "store_events"
    /\ IF events = <<>>
       THEN UNCHANGED <<access_events, access_paths>>
       ELSE /\ access_events' = access_events \cup
                   {NewAccessEvent(events[i], Cardinality(access_events) + i, server)
                       : i \in 1..Len(events)}
            /\ access_paths' = StorePathList(access_paths, events, server)
    /\ spc' = "xref"
    /\ UNCHANGED <<servers, ssh_keys, key_locations, unreachable_sources,
                   agent_status, committed, queue, visited, _cancelled, progress,
                   cur, server, wrapper, events, keys, source_ips, crawlNo, failedWrites, loadedKeys, connectFailed, notified, sessionLog,
                   processLog, skipLog, lastScan, envVars, notSpider>>

(* lines 402-408: keys with an authorized_keys location on the server *)
AuthorizedKeyIds(server_id) ==
    {l.ssh_key_id : l \in {x \in key_locations :
                              x.server_id = server_id /\ x.file_type = "authorized_keys"}}

(* the used keys without the test of the event type *)
UsedKeyIdsOfAnyEvent(server_id) ==
    {e.ssh_key_id : e \in {x \in access_events :
                              x.target_server_id = server_id /\ x.ssh_key_id # NULL}}

(* lines 411-418: keys seen in accepted events on the server *)
UsedKeyIds(server_id) ==
    {e.ssh_key_id : e \in {x \in access_events :
                              /\ x.target_server_id = server_id
                              /\ x.event_type = "accepted"
                              /\ x.ssh_key_id # NULL}}

(* lines 435-439: the access paths the reconciler loads *)
PathsToReconcile(server_id) ==
    {p \in access_paths : p.target_server_id = server_id /\ p.ssh_key_id # NULL}

(* _cross_reference_layers (lines 395-443), then the set of source IPs of  *)
(* step 5 (line 155).                                                      *)
CrossReferenceLayers ==
    /\ spc = "xref"
    /\ LET authorized_key_ids == AuthorizedKeyIds(server)
           used_key_ids == UsedKeyIds(server)
           both_ids == authorized_key_ids \cap used_key_ids
       IN  /\ key_locations' =
                 {IF /\ kl.server_id = server
                     /\ kl.ssh_key_id \in both_ids
                     /\ kl.file_type = "authorized_keys"
                  THEN [kl EXCEPT !.graph_layer = "both"]
                  ELSE kl : kl \in key_locations}
           /\ access_paths' =
                 {IF path \in PathsToReconcile(server)
                  THEN [path EXCEPT
                           !.is_authorized = path.ssh_key_id \in authorized_key_ids,
                           !.is_used = path.ssh_key_id \in used_key_ids]
                  ELSE path : path \in access_paths}
    /\ source_ips' = {events[i].source_ip : i \in 1..Len(events)} \ {NULL}
    /\ spc' = "sources"
    /\ UNCHANGED <<servers, ssh_keys, access_events, unreachable_sources,
                   agent_status, committed, queue, visited, _cancelled, progress,
                   cur, server, wrapper, events, keys, crawlNo, failedWrites, loadedKeys, connectFailed, notified, sessionLog, processLog,
                   skipLog, lastScan, envVars, notSpider>>

(* UnreachableDetector.classify_severity (unreachable_detector.py 66-92) *)
ClassifySeverity(username, fingerprint, is_private) ==
    IF username = "root" /\ fingerprint # NULL THEN "critical"
    ELSE IF fingerprint # NULL /\ ~is_private THEN "high"
    ELSE IF fingerprint # NULL /\ is_private THEN "medium"
    ELSE "low"

(* a frontier that keeps a source at the depth of the server it logged in to *)
SameDepth(current_depth) == current_depth

(* lines 459 and 480: the depth at which a source is queued *)
SourceDepth(current_depth) == current_depth + 1

(* _process_source_ip (lines 445-501) for one element of source_ips;       *)
(* is_reachable is the answer of pool.check_reachable, is_private whether  *)
(* the address is in an RFC1918 range.                                     *)
ProcessSourceIp(source_ip, is_reachable, is_private) ==
    /\ spc = "sources"
    /\ source_ip \in source_ips
    /\ source_ips' = source_ips \ {source_ip}
    /\ LET known == {s \in servers : s.ip_address = source_ip}
       IN  IF known # {}
           THEN LET existing == CHOOSE s \in known : TRUE
                IN  /\ queue' = IF ServerKey(existing.ip_address, existing.ssh_port)
                                      \notin visited
                                THEN Append(queue,
                                            [hostname |-> existing.ip_address,
                                             port |-> existing.ssh_port,
                                             depth |-> SourceDepth(cur.depth)])
                                ELSE queue
                    /\ UNCHANGED <<servers, unreachable_sources, progress>>
           ELSE IF is_reachable
           THEN /\ servers' = GetOrCreate(servers, ServerColumns,
                                  [hostname |-> source_ip, ssh_port |-> DefaultPort,
                                   discovered_via |-> "scan", is_reachable |-> TRUE],
                                  [ip_address |-> source_ip]).table
                /\ queue' = Append(queue, [hostname |-> source_ip,
                                           port |-> DefaultPort,
                                           depth |-> SourceDepth(cur.depth)])
                /\ UNCHANGED <<unreachable_sources, progress>>
           ELSE /\ unreachable_sources' =
                       GetOrCreate(unreachable_sources, UnreachableSourceColumns,
                           [target_server_id |-> server, first_seen_at |-> clock,
                            last_seen_at |-> clock,
                            severity |-> ClassifySeverity("", NULL, is_private)],
                           [source_ip |-> source_ip, fingerprint |-> NULL,
                            target_server_id |-> server]).table
                /\ progress' = [progress EXCEPT !.unreachable_found = @ + 1]
                /\ UNCHANGED <<servers, queue>>
    /\ UNCHANGED <<ssh_keys, key_locations, access_events, access_paths,
                   agent_status, committed, visited, _cancelled, spc, cur, server,
                   wrapper, events, keys, crawlNo, failedWrites, loadedKeys, connectFailed, notified, sessionLog, processLog, skipLog, lastScan,
                   envVars, notSpider>>

(* a try block without its finally clause *)
NoFinally(log) == log

(* lines 165-166: finally: await self.pool.release_connection(...) *)
Finally(log) == Append(log, "release_connection")

(* lines 158-166: stamp the server, commit, release the connection *)
FinishServer ==
    /\ spc = "sources"
    /\ source_ips = {}
    /\ LET srv == RowById(servers, server)
       IN  servers' = UpdateRow(servers, srv,
                         [srv EXCEPT !.last_scanned_at = clock,
                                     !.is_reachable = TRUE])
    /\ progress' = [progress EXCEPT !.servers_scanned = @ + 1]
    /\ committed' = Snapshot(servers', ssh_keys, key_locations, access_events,
                             access_paths, unreachable_sources, agent_status)
    /\ wrapper' = NULL
    /\ sessionLog' = Finally(Append(sessionLog, "commit"))
    /\ server' = NULL
    /\ events' = <<>>
    /\ keys' = {}
    /\ spc' = "loop"
    /\ lastScan' = [lastScan EXCEPT ![RowById(servers, server).ip_address].done = TRUE]
    /\ UNCHANGED <<ssh_keys, key_locations, access_events, access_paths,
                   unreachable_sources, agent_status, queue, visited, _cancelled,
                   cur, source_ips, crawlNo, failedWrites, loadedKeys, connectFailed, notified, processLog, skipLog, envVars,
                   notSpider>>

(* a database call inside the try block raises: the finally clause         *)
(* releases the connection (line 166), crawl logs the error and continues  *)
(* (lines 92-94); nothing is rolled back.                                  *)
ProcessFail ==
    /\ spc \in {"store_keys", "store_events", "xref", "sources"}
    /\ failedWrites' = failedWrites \cup StagedFor(server)
    /\ wrapper' = NULL
    /\ sessionLog' = Finally(sessionLog)
    /\ server' = NULL
    /\ events' = <<>>
    /\ keys' = {}
    /\ source_ips' = {}
    /\ spc' = "loop"
    /\ UNCHANGED <<queue, visited, _cancelled, progress, cur, crawlNo, loadedKeys, connectFailed, notified, processLog,
                   skipLog, lastScan, dbVars, envVars, notSpider>>

EventTypes == {"accepted", "failed"}
FileTypes == {"authorized_keys", "private_key"}

(* the steps of a crawl apart from the reading of the log *)
CrawlSteps ==
    \/ \E seed \in servers : CrawlStart(seed)
    \/ CrawlPop
    \/ CrawlReturn
    \/ UpsertServer
    \/ ConnectOk
    \/ ConnectFail
    \/ \E ok \in BOOLEAN : ScanServerKeys(ok)
    \/ StoreKeys
    \/ StoreEvents
    \/ CrossReferenceLayers
    \/ \E ip \in Hosts, r \in BOOLEAN : ProcessSourceIp(ip, r, TRUE)
    \/ FinishServer
    \/ ProcessFail

(* crawls over hosts that log in to one another with passwords; every host *)
(* runs journald, and journalctl answers.                                  *)
NextCrawl ==
    \/ \E h \in Hosts, src \in Hosts : HostLogin(h, src, NULL, "accepted")
    \/ ParseServerLogs(TRUE)
    \/ CrawlSteps

(* repeated scans of the seed host, whose log lines carry any timestamps *)
NextLastSeen ==
    \/ \E t \in TicksPerSec..MaxTime : HostLoginAt(SeedHost, SeedHost, t)
    \/ \E journal_ok \in BOOLEAN : ParseServerLogs(journal_ok)
    \/ CrawlSteps

(* one crawl over hosts that list each other, and themselves, as sources: *)
(* the logins are all made before the crawl starts.                       *)
NextTerminate ==
    \/ \E h \in Hosts, src \in Hosts :
          /\ crawlNo = 0
          /\ Len(hostLog[h]) < MaxLines
          /\ \A i \in DOMAIN hostLog[h] : hostLog[h][i].source_ip < src
          /\ HostLogin(h, src, NULL, "accepted")
    \/ ParseServerLogs(TRUE)
    \/ CrawlSteps /\ crawlNo' <= 1

(* the steps of the engine of a running crawl *)
EngineSteps == CrawlSteps \/ ParseServerLogs(TRUE)

(* crawls that may be cancelled at any point; each host is logged in to at *)
(* most once.                                                              *)
NextCancel ==
    \/ \E h \in Hosts, src \in Hosts :
          hostLog[h] = <<>> /\ HostLogin(h, src, NULL, "accepted")
    \/ Cancel
    \/ CrawlSteps
    \/ ParseServerLogs(TRUE)

(* repeated scans of the seed host: logins of every kind made from the     *)
(* host itself, key files appearing, journalctl answering or not.          *)
NextScan ==
    \/ \E fp \in {NULL} \cup Fingerprints, type \in EventTypes :
          Len(hostLog[SeedHost]) < MaxLines /\ HostLogin(SeedHost, SeedHost, fp, type)
    \/ \E fp \in Fingerprints, ftype \in FileTypes : HostKeyFile(SeedHost, fp, ftype)
    \/ \E journal_ok \in BOOLEAN : ParseServerLogs(journal_ok)
    \/ CrawlSteps

(***************************************************************************)
(* get_or_create across sessions (db/queries.py lines 29-45).  The         *)
(* database gives each session its own transaction: a select sees the      *)
(* committed rows and the session's own flushed rows; an INSERT of a       *)
(* non-null key that another open transaction has inserted waits for that  *)
(* transaction, and fails on the unique constraint once the row is         *)
(* committed.  A NULL key column is outside the unique constraint.         *)
(***************************************************************************)
Sessions == 1..NumSessions
UpsertKeys == {NULL} \cup (1..NumKeys)
UpsertValues == 1..NumValues

InitUpsert ==
    /\ stored = {}
    /\ pending = [s \in Sessions |-> {}]
    /\ gpc = [s \in Sessions |-> "idle"]
    /\ call = [s \in Sessions |-> [kwargs |-> [key |-> NULL], defaults |-> [value |-> NULL]]]
    /\ rowSeq = 0
    /\ peers = [s \in Sessions |-> {}]
    /\ results = [s \in Sessions |-> <<>>]

(* the rows a statement of session s sees *)
Visible(s) == stored \cup pending[s]

(* all rows, committed or not *)
AllRows == stored \cup UNION {pending[s] : s \in Sessions}

(* lines 39-40 with a hit returned together with the defaults applied *)
FoundWithDefaults(instance, defaults) == Merge(instance, defaults)

(* lines 39-40: the instance that was found is returned as it is *)
Found(instance, defaults) == instance

(* the record of a finished call *)
CallResult(s, kwargs, defaults, outcome, instance, created, existed, inserted, with) ==
    [key |-> kwargs.key, defaults |-> defaults.value, outcome |-> outcome,
     id |-> instance.id, value |-> instance.value, created |-> created,
     existed |-> existed, inserted |-> inserted, peers |-> with]

NoRow == [id |-> NULL, key |-> NULL, value |-> NULL]

(* lines 36-40: the select; a hit returns (instance, False), more than one *)
(* hit makes scalar_one_or_none raise, no hit goes on to the insert.       *)
GocSelect(s, k, v) ==
    /\ gpc[s] = "idle"
    /\ Len(results[s]) < MaxCalls
    /\ LET kwargs == [key |-> k]
           defaults == [value |-> v]
           found == Matching(Visible(s), kwargs)
           inCall == {o \in Sessions \ {s} : gpc[o] = "flush"}
           with == {<<o, Len(results[o]) + 1>> : o \in inCall}
           me == <<s, Len(results[s]) + 1>>
           others == [o \in Sessions |->
                         IF o \in inCall THEN peers[o] \cup {me} ELSE peers[o]]
       IN  IF Cardinality(found) > 1
           THEN /\ results' = [results EXCEPT ![s] = Append(@,
                       CallResult(s, kwargs, defaults, "MultipleResultsFound",
                                  NoRow, FALSE, TRUE, 0, with))]
                /\ pending' = [pending EXCEPT ![s] = {}]
                /\ peers' = others
                /\ UNCHANGED <<gpc, call>>
           ELSE IF found # {}
           THEN /\ results' = [results EXCEPT ![s] = Append(@,
                       CallResult(s, kwargs, defaults, "ok",
                                  Found(CHOOSE r \in found : TRUE, defaults),
                                  FALSE, TRUE, 0, with))]
                /\ peers' = others
                /\ UNCHANGED <<pending, gpc, call>>
           ELSE /\ gpc' = [gpc EXCEPT ![s] = "flush"]
                /\ call' = [call EXCEPT ![s] = [kwargs |-> kwargs, defaults |-> defaults]]
                /\ peers' = [others EXCEPT ![s] = with]
                /\ UNCHANGED <<pending, results>>
    /\ UNCHANGED <<stored, rowSeq, notUpsert>>

(* lines 41-45: build the instance from {**kwargs, **defaults}, add, flush *)
GocFlush(s) ==
    /\ gpc[s] = "flush"
    /\ LET kwargs == call[s].kwargs
           defaults == call[s].defaults
           k == kwargs.key
           params == Merge(kwargs, defaults)
           instance == Merge(params, [id |-> rowSeq + 1])
       IN  /\ k # NULL => \A o \in Sessions \ {s} : \A r \in pending[o] : r.key # k
           /\ IF k # NULL /\ \E r \in stored : r.key = k
              THEN /\ results' = [results EXCEPT ![s] = Append(@,
                          CallResult(s, kwargs, defaults, "IntegrityError",
                                     NoRow, FALSE, FALSE, 0, peers[s]))]
                   /\ pending' = [pending EXCEPT ![s] = {}]
                   /\ UNCHANGED rowSeq
              ELSE /\ results' = [results EXCEPT ![s] = Append(@,
                          CallResult(s, kwargs, defaults, "ok", instance,
                                     TRUE, FALSE, 1, peers[s]))]
                   /\ pending' = [pending EXCEPT ![s] = @ \cup {instance}]
                   /\ rowSeq' = rowSeq + 1
    /\ gpc' = [gpc EXCEPT ![s] = "idle"]
    /\ peers' = [peers EXCEPT ![s] = {}]
    /\ UNCHANGED <<stored, call, notUpsert>>

(* session.commit() of the calling task *)
SessionCommit(s) ==
    /\ gpc[s] = "idle"
    /\ pending[s] # {}
    /\ stored' = stored \cup pending[s]
    /\ pending' = [pending EXCEPT ![s] = {}]
    /\ UNCHANGED <<gpc, call, rowSeq, peers, results, notUpsert>>

NextUpsert ==
    \/ \E s \in Sessions, k \in UpsertKeys, v \in UpsertValues : GocSelect(s, k, v)
    \/ \E s \in Sessions : GocFlush(s)
    \/ \E s \in Sessions : SessionCommit(s)

(***************************************************************************)
(* AgentManager.deploy_agent and the receiver endpoints.                   *)
(***************************************************************************)
Tokens == 0..MaxTokens
ServerIds == 1..NumHosts

SudoEventColumns ==
    [id |-> NULL, server_id |-> NULL, username |-> "", event_time |-> NULL,
     success |-> TRUE]

InitAgent ==
    /\ tokenSeq = 0
    /\ sudo_events = {}
    /\ issued = [i \in ServerIds |-> <<>>]
    /\ lastRequest = [endpoint |-> "", scheme |-> "", token |-> 0, status |-> 0,
                      stale |-> FALSE]
    /\ reqCount = 0

(* hashlib.sha256(token.encode()).hexdigest(): distinct tokens have        *)
(* distinct digests, and a digest is no token                              *)
Sha256(token) == "sha256:" \o ToString(token)

(* lines 108-112 without the assignment of the token hash *)
RedeployedKeepingHash(agent, token_hash) ==
    [agent EXCEPT !.deployment_status = "deploying"]

(* agent_manager.py lines 108-112: an AgentStatus that existed *)
Redeployed(agent, token_hash) ==
    [agent EXCEPT !.deployment_status = "deploying",
                  !.agent_token_hash = token_hash]

(* deploy_agent (agent_manager.py lines 48-117); ssh_ok is whether the     *)
(* installation over SSH (lines 60-90) went through without an exception.  *)
DeployAgent(id, ssh_ok) ==
    /\ tokenSeq < MaxTokens
    /\ \E srv \in servers : srv.id = id
    /\ tokenSeq' = tokenSeq + 1
    /\ LET token == tokenSeq + 1
           token_hash == Sha256(token)
           srv == RowById(servers, id)
           goc == GetOrCreate(agent_status, AgentStatusColumns,
                      [agent_version |-> "1.0.0", deployment_status |-> "deploying",
                       agent_token_hash |-> token_hash],
                      [server_id |-> id])
           agent == IF goc.created THEN goc.instance
                    ELSE Redeployed(goc.instance, token_hash)
       IN  IF ssh_ok
           THEN /\ agent_status' = UpdateRow(goc.table, goc.instance, agent)
                /\ servers' = UpdateRow(servers, srv, [srv EXCEPT !.prefer_agent = TRUE])
                /\ committed' = ReceiverCommit(servers', ssh_keys, key_locations,
                                         access_events, access_paths,
                                         unreachable_sources, agent_status')
                /\ issued' = [issued EXCEPT ![id] = Append(@, token)]
           ELSE UNCHANGED <<agent_status, servers, committed, issued>>
    /\ UNCHANGED <<ssh_keys, key_locations, access_events, access_paths,
                   unreachable_sources, sudo_events, lastRequest, reqCount,
                   notAgent>>

(* uninstall_agent (agent_manager.py lines 119-144), the SSH removal done *)
UninstallAgent(id) ==
    /\ \E srv \in servers : srv.id = id
    /\ LET srv == RowById(servers, id)
           found == {a \in agent_status : a.server_id = id}
       IN  /\ agent_status' = (agent_status \ found)
                  \cup {[a EXCEPT !.deployment_status = "not_deployed"] : a \in found}
           /\ servers' = UpdateRow(servers, srv, [srv EXCEPT !.prefer_agent = FALSE])
           /\ committed' = ReceiverCommit(servers', ssh_keys, key_locations,
                                          access_events, access_paths,
                                          unreachable_sources, agent_status')
    /\ UNCHANGED <<ssh_keys, key_locations, access_events, access_paths,
                   unreachable_sources, tokenSeq, sudo_events, issued, lastRequest,
                   reqCount, notAgent>>

(* the Authorization header of a request *)
Schemes == {"", "Basic", "Bearer"}

(* a verification that lets every bearer token through *)
VerifyAnyBearer(auth) ==
    IF auth.scheme # "Bearer" THEN {} ELSE agent_status

(* verify_agent_token (agent_receiver.py lines 38-57): the AgentStatus the *)
(* token belongs to; none is answered 401.                                 *)
VerifyAgentToken(auth) ==
    IF auth.scheme # "Bearer" THEN {}
    ELSE {a \in agent_status : a.agent_token_hash = Sha256(auth.token)}

(* a token a later deployment of its server has replaced *)
Superseded(token) ==
    \E id \in ServerIds : \E i \in 1..(Len(issued[id]) - 1) : issued[id][i] = token

Answer(endpoint, auth, status) ==
    [endpoint |-> endpoint, scheme |-> auth.scheme, token |-> auth.token,
     status |-> status, stale |-> Superseded(auth.token)]

(* what every endpoint does with a request that fails verification *)
Rejected(endpoint, auth) ==
    /\ lastRequest' = Answer(endpoint, auth, 401)
    /\ UNCHANGED <<tableVars, committed, sudo_events>>

(* datetime.fromisoformat(timestamp), or now() on ValueError *)
ParseTimestamp(str) ==
    IF \E t \in 0..MaxTime : ToString(t) = str THEN FromIsoFormat(str) ELSE clock

(* a receiver that files the rows under the server the payload names *)
PayloadServer(agent, payload) == payload.server_id

(* server_id = agent.server_id (lines 82, 146 and 181): the rows are filed *)
(* under the server of the AgentStatus that verify_agent_token returned    *)
AttributedServer(agent, payload) == agent.server_id

(* POST /heartbeat (lines 60-72) *)
AgentHeartbeat(auth, agent_version) ==
    /\ reqCount < MaxRequests
    /\ reqCount' = reqCount + 1
    /\ LET found == VerifyAgentToken(auth)
           agent == CHOOSE a \in found : TRUE
       IN  IF found = {} THEN Rejected("heartbeat", auth)
           ELSE /\ agent_status' = UpdateRow(agent_status, agent,
                       [agent EXCEPT !.last_heartbeat_at = clock,
                                     !.deployment_status = "active",
                                     !.agent_version =
                                         IF agent_version # "" THEN agent_version ELSE @])
                /\ committed' = ReceiverCommit(servers, ssh_keys, key_locations,
                                         access_events, access_paths,
                                         unreachable_sources, agent_status')
                /\ lastRequest' = Answer("heartbeat", auth, 200)
                /\ UNCHANGED <<servers, ssh_keys, key_locations, access_events,
                               access_paths, unreachable_sources, sudo_events>>
    /\ UNCHANGED <<tokenSeq, issued, notAgent>>

(* POST /events (lines 75-136) *)
AgentEvents(auth, payload) ==
    /\ reqCount < MaxRequests
    /\ reqCount' = reqCount + 1
    /\ LET found == VerifyAgentToken(auth)
           agent == CHOOSE a \in found : TRUE
           server_id == AttributedServer(agent, payload)
           rows == {Merge(NewAccessEvent(
                              AuthEvent(payload.events[i],
                                        ParseTimestamp(payload.events[i].timestamp)),
                              Cardinality(access_events) + i, server_id),
                          [log_source |-> "agent"]) : i \in 1..Len(payload.events)}
       IN  IF found = {} THEN Rejected("events", auth)
           ELSE /\ access_events' = access_events \cup rows
                /\ agent_status' = UpdateRow(agent_status, agent,
                                             [agent EXCEPT !.last_event_at = clock])
                /\ committed' = ReceiverCommit(servers, ssh_keys, key_locations,
                                         access_events', access_paths,
                                         unreachable_sources, agent_status')
                /\ lastRequest' = Answer("events", auth, 200)
                /\ UNCHANGED <<servers, ssh_keys, key_locations, access_paths,
                               unreachable_sources, sudo_events>>
    /\ UNCHANGED <<tokenSeq, issued, notAgent>>

(* POST /sudo-events (lines 139-171) *)
AgentSudoEvents(auth, payload) ==
    /\ reqCount < MaxRequests
    /\ reqCount' = reqCount + 1
    /\ LET found == VerifyAgentToken(auth)
           agent == CHOOSE a \in found : TRUE
           rows == {Merge(SudoEventColumns,
                          [id |-> Cardinality(sudo_events) + i,
                           server_id |-> AttributedServer(agent, payload),
                           username |-> payload.events[i].username,
                           event_time |-> ParseTimestamp(payload.events[i].timestamp)])
                       : i \in 1..Len(payload.events)}
       IN  IF found = {} THEN Rejected("sudo-events", auth)
           ELSE /\ sudo_events' = sudo_events \cup rows
                /\ agent_status' = UpdateRow(agent_status, agent,
                                             [agent EXCEPT !.last_event_at = clock])
                /\ committed' = ReceiverCommit(servers, ssh_keys, key_locations,
                                         access_events, access_paths,
                                         unreachable_sources, agent_status')
                /\ lastRequest' = Answer("sudo-events", auth, 200)
                /\ UNCHANGED <<servers, ssh_keys, key_locations, access_events,
                               access_paths, unreachable_sources>>
    /\ UNCHANGED <<tokenSeq, issued, notAgent>>

(* one item of the loop of POST /keys (lines 184-236); a key whose data    *)
(* is empty or has no fingerprint is skipped.                              *)
StoreAgentKey(st, key_item, server_id) ==
    IF key_item.fingerprint = NULL THEN st
    ELSE
    LET gk == GetOrCreate(st.ssh_keys, SSHKeyColumns,
                          [is_host_key |-> key_item.is_host_key],
                          [fingerprint_sha256 |-> key_item.fingerprint])
        k0 == gk.instance
        file_mtime == IF \E t \in 0..MaxTime : ToString(t) = key_item.file_mtime
                      THEN FromIsoFormat(key_item.file_mtime) ELSE NULL
        k1 == IF file_mtime # NULL
                 /\ (k0.file_mtime = NULL \/ file_mtime < k0.file_mtime)
              THEN [k0 EXCEPT !.file_mtime = file_mtime]
              ELSE k0
        gl == GetOrCreate(st.key_locations, KeyLocationColumns,
                          [file_type |-> key_item.file_type,
                           file_mtime |-> file_mtime,
                           last_verified_at |-> clock],
                          [ssh_key_id |-> k0.id, server_id |-> server_id,
                           file_path |-> key_item.file_path])
    IN  [ssh_keys |-> UpdateRow(gk.table, k0, k1), key_locations |-> gl.table]

RECURSIVE StoreAgentKeys(_, _, _)
StoreAgentKeys(st, items, server_id) ==
    IF items = <<>> THEN st
    ELSE StoreAgentKeys(StoreAgentKey(st, Head(items), server_id), Tail(items),
                        server_id)

(* POST /keys (lines 174-239) *)
AgentKeys(auth, payload) ==
    /\ reqCount < MaxRequests
    /\ reqCount' = reqCount + 1
    /\ LET found == VerifyAgentToken(auth)
           agent == CHOOSE a \in found : TRUE
           st == StoreAgentKeys([ssh_keys |-> ssh_keys, key_locations |-> key_locations],
                                payload.keys, AttributedServer(agent, payload))
       IN  IF found = {} THEN Rejected("keys", auth)
           ELSE /\ ssh_keys' = st.ssh_keys
                /\ key_locations' = st.key_locations
                /\ committed' = ReceiverCommit(servers, ssh_keys', key_locations',
                                         access_events, access_paths,
                                         unreachable_sources, agent_status)
                /\ lastRequest' = Answer("keys", auth, 200)
                /\ UNCHANGED <<servers, access_events, access_paths,
                               unreachable_sources, agent_status, sudo_events>>
    /\ UNCHANGED <<tokenSeq, issued, notAgent>>

(* the requests agents and strangers send *)
Auths == {[scheme |-> sc, token |-> t] : sc \in Schemes, t \in Tokens}

EventPayloads ==
    {[server_id |-> id,
      events |-> <<[timestamp |-> ts, source_ip |-> SeedHost, username |-> "root",
                    event_type |-> "accepted", fingerprint |-> fp]>>]
        : id \in ServerIds, ts \in {ToString(TicksPerSec), "yesterday"},
          fp \in {NULL} \cup Fingerprints}

SudoPayloads ==
    {[server_id |-> id,
      events |-> <<[timestamp |-> ToString(TicksPerSec), username |-> "root"]>>]
        : id \in ServerIds}

KeyPayloads ==
    {[server_id |-> id,
      keys |-> <<[fingerprint |-> fp, file_path |-> "authorized_keys",
                  file_type |-> "authorized_keys", is_host_key |-> FALSE,
                  file_mtime |-> ToString(TicksPerSec)]>>]
        : id \in ServerIds, fp \in {NULL} \cup Fingerprints}

NextAgent ==
    \/ \E srv \in servers, ssh_ok \in BOOLEAN : DeployAgent(srv.id, ssh_ok)
    \/ \E auth \in Auths, v \in {"", "1.0.1"} : AgentHeartbeat(auth, v)
    \/ \E auth \in Auths, payload \in EventPayloads : AgentEvents(auth, payload)
    \/ \E auth \in Auths, payload \in SudoPayloads : AgentSudoEvents(auth, payload)
    \/ \E auth \in Auths, payload \in KeyPayloads : AgentKeys(auth, payload)

(* the server a token was issued for, NULL for a token never issued *)
TokenServer(token) ==
    IF \E id \in ServerIds : \E i \in DOMAIN issued[id] : issued[id][i] = token
    THEN CHOOSE id \in ServerIds : \E i \in DOMAIN issued[id] : issued[id][i] = token
    ELSE NULL

BearerAuths == {auth \in Auths : auth.scheme = "Bearer"}

(* agents that name another server than their own in every payload *)
NextAttribution ==
    \/ \E srv \in servers, ssh_ok \in BOOLEAN : DeployAgent(srv.id, ssh_ok)
    \/ \E auth \in BearerAuths, payload \in EventPayloads :
          /\ payload.server_id # TokenServer(auth.token)
          /\ AgentEvents(auth, payload)
    \/ \E auth \in BearerAuths, payload \in SudoPayloads :
          /\ payload.server_id # TokenServer(auth.token)
          /\ AgentSudoEvents(auth, payload)
    \/ \E auth \in BearerAuths, payload \in KeyPayloads :
          /\ payload.server_id # TokenServer(auth.token)
          /\ AgentKeys(auth, payload)

(***************************************************************************)
(* A crawl of a server that has, had or never had an agent.                *)
(***************************************************************************)
(* datetime.now advances: by a tick, or by a tick less than the freshness  *)
(* window; ticks are counted up to MaxTime and again beyond the window     *)
FreshWindow == AgentFreshSeconds * TicksPerSec

MaxClock == FreshWindow + MaxTime

TimePasses(d) ==
    /\ clock + d <= MaxClock
    /\ IF d = 1 THEN clock < MaxTime \/ clock >= FreshWindow - 1 ELSE clock <= MaxTime
    /\ clock' = clock + d
    /\ UNCHANGED <<hostLog, hostKeys, dbVars, spiderVars, notSpider>>

AgentAuths == {[scheme |-> "Bearer", token |-> t] : t \in 1..MaxTokens}

NextShortCircuit ==
    \/ \E d \in {1, FreshWindow - 1} : TimePasses(d)
    \/ \E srv \in servers : spc = "idle" /\ DeployAgent(srv.id, TRUE)
    \/ \E srv \in servers : spc = "idle" /\ UninstallAgent(srv.id)
    \/ \E auth \in AgentAuths : AgentHeartbeat(auth, "")
    \/ hostLog[SeedHost] = <<>> /\ agent_status = {}
          /\ HostLogin(SeedHost, SeedHost, NULL, "accepted")
    \/ ParseServerLogs(TRUE)
    \/ CrawlSteps

(***************************************************************************)
(* The three writers of one database: the spider scanning the seed host,   *)
(* the receiver taking the payloads of the seed host's agent, and the      *)
(* callback of the seed host's watcher.                                    *)
(***************************************************************************)
(* on_event of _start_watcher (workers/watch_tasks.py lines 66-103): one   *)
(* session per event, key and source looked up, the AccessEvent added and  *)
(* committed                                                               *)
WatcherOnEvent(event) ==
    /\ Cardinality(access_events) < MaxEventRows
    /\ access_events' = access_events \cup
           {NewAccessEvent(AuthEvent(event, FloorSec(clock)),
                           Cardinality(access_events) + 1, SeedHost)}
    /\ committed' = ReceiverCommit(servers, ssh_keys, key_locations, access_events',
                                   access_paths, unreachable_sources, agent_status)
    /\ UNCHANGED <<servers, ssh_keys, key_locations, access_paths,
                   unreachable_sources, agent_status, agentVars, notAgent>>

(* what a session other than the spider's selects is what was committed:   *)
(* requests that would read rows the spider has staged are left out        *)
ReadsCommitted ==
    /\ ssh_keys = committed.ssh_keys
    /\ key_locations = committed.key_locations
    /\ agent_status = committed.agent_status
    /\ {<<r.id, r.ip_address>> : r \in servers}
           = {<<r.id, r.ip_address>> : r \in committed.servers}

(* the bearer token that the first deployment issued *)
IngestAuth == [scheme |-> "Bearer", token |-> 1]

WatchedEvents ==
    {[source_ip |-> SeedHost, username |-> "root", event_type |-> "accepted",
      fingerprint |-> fp] : fp \in {NULL} \cup Fingerprints}

NextIngest ==
    \/ \E fp \in Fingerprints :
          hostLog[SeedHost] = <<>> /\ HostLogin(SeedHost, SeedHost, fp, "accepted")
    \/ \E fp \in Fingerprints : HostKeyFile(SeedHost, fp, "authorized_keys")
    \/ ParseServerLogs(TRUE)
    \/ CrawlSteps
    \/ spc = "idle" /\ agent_status = {} /\ DeployAgent(SeedHost, TRUE)
    \/ \E payload \in EventPayloads :
          /\ ReadsCommitted
          /\ payload.server_id = SeedHost
          /\ payload.events[1].timestamp = ToString(TicksPerSec)
          /\ Cardinality(access_events) < MaxEventRows
          /\ AgentEvents(IngestAuth, payload)
    \/ \E payload \in KeyPayloads :
          /\ ReadsCommitted
          /\ payload.server_id = SeedHost
          /\ payload.keys[1].fingerprint # NULL
          /\ AgentKeys(IngestAuth, payload)
    \/ \E event \in WatchedEvents : ReadsCommitted /\ WatcherOnEvent(event)

(***************************************************************************)
(* Key files observed by a crawl of two hosts and by the seed host's       *)
(* agent: the seed host logs one login from its peer, which the crawl      *)
(* then visits; the same key lies on both with modification times of its   *)
(* own, and the agent reports it with a third.                             *)
(***************************************************************************)
PeerHost == 2
FileMtimes == {TicksPerSec + 1, TicksPerSec + 2}

HostKeyFileAt(h, fp, mtime) ==
    /\ spc = "idle"
    /\ hostKeys[h] = {}
    /\ hostKeys' = [hostKeys EXCEPT ![h] =
                       {[fingerprint_sha256 |-> fp, file_type |-> "authorized_keys",
                         file_path |-> "authorized_keys", file_mtime |-> mtime]}]
    /\ UNCHANGED <<hostLog, clock, dbVars, spiderVars, notSpider>>

NextMtime ==
    \/ \E h \in {SeedHost, PeerHost}, fp \in Fingerprints, mtime \in FileMtimes :
          HostKeyFileAt(h, fp, mtime)
    \/ hostLog[SeedHost] = <<>> /\ HostLogin(SeedHost, PeerHost, NULL, "accepted")
    \/ ParseServerLogs(TRUE)
    \/ CrawlSteps
    \/ spc = "idle" /\ agent_status = {} /\ DeployAgent(SeedHost, TRUE)
    \/ \E payload \in KeyPayloads :
          /\ ReadsCommitted
          /\ payload.server_id = SeedHost
          /\ payload.keys[1].fingerprint # NULL
          /\ AgentKeys(IngestAuth, payload)

(***************************************************************************)
(* UnreachableDetector.classify_severity on addresses                      *)
(* (core/unreachable_detector.py).  An address is its version and its      *)
(* packed bytes; a string that is no address has version 0.                *)
(***************************************************************************)
V4(a, b) == [version |-> 4, packed |-> <<a, b, 0, 1>>]
V6(a) == [version |-> 6, packed |-> <<a, 0, 0, 0, 0, 0, 0, 0, 0, 0, 0, 0, 0, 0, 0, 1>>]
NotAnAddress == [version |-> 0, packed |-> <<>>]

Network(addr, prefixlen) ==
    [version |-> addr.version, packed |-> addr.packed, prefixlen |-> prefixlen]

(* _PRIVATE_RANGES (lines 17-22) *)
_PRIVATE_RANGES ==
    {Network([version |-> 4, packed |-> <<10, 0, 0, 0>>], 8),
     Network([version |-> 4, packed |-> <<172, 16, 0, 0>>], 12),
     Network([version |-> 4, packed |-> <<192, 168, 0, 0>>], 16),
     Network([version |-> 6,
              packed |-> <<252, 0, 0, 0, 0, 0, 0, 0, 0, 0, 0, 0, 0, 0, 0, 0>>], 7)}

(* a containment test that compares whole bytes only *)
InNetworkWholeOctets(addr, net) ==
    /\ addr.version = net.version
    /\ \A i \in 1..(net.prefixlen \div 8) : addr.packed[i] = net.packed[i]

(* addr in net of the ipaddress module: same version and the first         *)
(* prefixlen bits equal                                                    *)
InNetwork(addr, net) ==
    /\ addr.version = net.version
    /\ LET whole == net.prefixlen \div 8
           rest == net.prefixlen % 8
       IN  /\ \A i \in 1..whole : addr.packed[i] = net.packed[i]
           /\ rest # 0 =>
                 addr.packed[whole + 1] \div (2 ^ (8 - rest))
                    = net.packed[whole + 1] \div (2 ^ (8 - rest))

(* is_private_ip (lines 58-64): ip_address() raises ValueError on a string *)
(* that is no address, and the answer is then False                        *)
is_private_ip(ip) ==
    IF ip.version = 0 THEN FALSE
    ELSE \E net \in _PRIVATE_RANGES : InNetwork(ip, net)

SourceAddresses ==
    {V4(a, b) : a \in {9, 10, 11, 172, 192, 193}, b \in {15, 16, 31, 32, 167, 168}}
    \cup {V6(a) : a \in {251, 252, 253, 254}}
    \cup {NotAnAddress}

(* None is "" for the username and NULL for the fingerprint *)
Usernames == {"root", "admin", ""}

InitCalls ==
    /\ classified = [source_ip |-> NotAnAddress, username |-> "",
                     fingerprint |-> NULL, severity |-> ""]
    /\ parsed = [ts |-> 0, last_timestamp |-> [year |-> 0, t |-> 0], year |-> 0]
    /\ parsedLog = [content |-> <<>>, timestamps |-> <<>>]

(* classify_severity (lines 66-92) *)
ClassifyCall(source_ip, username, fingerprint) ==
    /\ classified' = [source_ip |-> source_ip, username |-> username,
                      fingerprint |-> fingerprint,
                      severity |-> ClassifySeverity(username, fingerprint,
                                                    is_private_ip(source_ip))]
    /\ UNCHANGED <<parsed, parsedLog, notCalls>>

NextSeverity ==
    \E source_ip \in SourceAddresses, username \in Usernames,
       fingerprint \in {NULL} \cup Fingerprints :
        ClassifyCall(source_ip, username, fingerprint)

(***************************************************************************)
(* _parse_syslog_timestamp (core/log_parser.py lines 118-147).  A datetime *)
(* is a year and the time t since the start of that year, counted in       *)
(* UnitsPerDay parts of a day; the lines are stamped in the first days of  *)
(* January, so that strptime accepts the date in every year.               *)
(***************************************************************************)
UnitsPerDay == 2
RolloverDays == 300
ReferenceYear == 2024
NoTime == [year |-> 0, t |-> 0]

DaysInYear(y) ==
    IF y % 4 = 0 /\ (y % 100 # 0 \/ y % 400 = 0) THEN 366 ELSE 365

(* a - b of two datetimes whose years are the same or follow each other *)
Delta(a, b) ==
    IF a.year = b.year THEN a.t - b.t
    ELSE IF a.year = b.year + 1 THEN DaysInYear(b.year) * UnitsPerDay + a.t - b.t
    ELSE (a.t - b.t) - DaysInYear(a.year) * UnitsPerDay

(* timedelta.days: the whole days of the difference, rounded down *)
TimedeltaDays(delta) == delta \div UnitsPerDay

(* strptime of a stamp in a year: a stamp of January is its time since    *)
(* the start of the year, a stamp of December (negative) its time before   *)
(* the end of the year                                                     *)
Strptime(year, ts) ==
    [year |-> year,
     t |-> IF ts >= 0 THEN ts ELSE DaysInYear(year) * UnitsPerDay + ts]

(* lines 129-145 *)
_parse_syslog_timestamp(ts, reference_year, last_timestamp) ==
    LET dt == Strptime(reference_year, ts)
    IN  IF last_timestamp # NoTime
           /\ TimedeltaDays(Delta(last_timestamp, dt)) > RolloverDays
        THEN Strptime(reference_year - 1, ts)
        ELSE dt

LineStamps == 0..(MaxStampDay * UnitsPerDay + 1)
LastTimestamps ==
    {NoTime}
    \cup {[year |-> ReferenceYear, t |-> d * UnitsPerDay + f] :
             d \in (RolloverDays - 1)..(RolloverDays + MaxStampDay + 1),
             f \in 0..(UnitsPerDay - 1)}
    \cup {[year |-> ReferenceYear + 1, t |-> f] : f \in 0..(UnitsPerDay - 1)}

ParseCall(ts, last_timestamp) ==
    /\ parsed' = [ts |-> ts, last_timestamp |-> last_timestamp,
                  year |-> _parse_syslog_timestamp(ts, ReferenceYear,
                                                   last_timestamp).year]
    /\ UNCHANGED <<classified, parsedLog, notCalls>>

NextTimestamp ==
    \E ts \in LineStamps, last_timestamp \in LastTimestamps :
        ParseCall(ts, last_timestamp)

(* parse_log (lines 196-209) on the stamps of the lines that are events:   *)
(* the timestamps of the events returned                                   *)
RECURSIVE ParseLines(_, _, _)
ParseLines(lines, reference_year, last_ts) ==
    IF lines = <<>> THEN <<>>
    ELSE LET timestamp == _parse_syslog_timestamp(Head(lines), reference_year, last_ts)
         IN  <<timestamp>> \o ParseLines(Tail(lines), reference_year, timestamp)

parse_log(content, reference_year) == ParseLines(content, reference_year, NoTime)

(* logs written in the order of time over the turn of a year: stamps of    *)
(* the last days of December, then of the first days of January            *)
TurnStamps == (0 - MaxStampDay)..MaxStampDay
LogContents ==
    {c \in UNION {[1..n -> TurnStamps] : n \in 1..MaxLogLines} :
        \A i \in 1..(Len(c) - 1) : c[i] <= c[i + 1]}

ParseLogCall(content) ==
    /\ parsedLog' = [content |-> content,
                     timestamps |-> parse_log(content, ReferenceYear)]
    /\ UNCHANGED <<classified, parsed, notCalls>>

NextParseLog == \E content \in LogContents : ParseLogCall(content)

(***************************************************************************)
(* GraphBuilder.find_paths (core/graph_builder.py lines 359-390)           *)
(***************************************************************************)
Nodes == 1..NumNodes

InitPaths ==
    /\ all_paths = <<>>
    /\ pathArgs = [from_server_id |-> NULL, to_server_id |-> NULL]
    /\ adjacency = [n \in Nodes |-> <<>>]
    /\ bfsQueue = <<>>
    /\ found_paths = <<>>
    /\ fpc = "idle"

(* lines 366-369: target ids of the rows with a source, per source, in     *)
(* the order of the rows                                                   *)
RECURSIVE Adjacency(_)
Adjacency(rows) ==
    IF rows = <<>> THEN [n \in Nodes |-> <<>>]
    ELSE LET path == rows[Len(rows)]
             before == Adjacency(SubSeq(rows, 1, Len(rows) - 1))
         IN  IF path.source_server_id # NULL
             THEN [before EXCEPT ![path.source_server_id] =
                      Append(@, path.target_server_id)]
             ELSE before

(* neighbor in current_path (line 387) *)
InPath(n, path) == \E i \in 1..Len(path) : path[i] = n

(* a select without its where clause *)
IsAnyRow(row) == TRUE

(* the select of lines 362-365 *)
IsActive(row) == row.is_active

SelectActive(rows) == SelectSeq(rows, IsActive)

RECURSIVE Extensions(_, _)
Extensions(path, neighbors) ==
    IF neighbors = <<>> THEN <<>>
    ELSE (IF InPath(Head(neighbors), path) THEN <<>>
          ELSE <<Append(path, Head(neighbors))>>)
         \o Extensions(path, Tail(neighbors))

(* lines 361-373: the select, the adjacency list and the queue *)
FindPathsStart(rows, from_server_id, to_server_id) ==
    /\ fpc = "idle"
    /\ all_paths' = rows
    /\ pathArgs' = [from_server_id |-> from_server_id, to_server_id |-> to_server_id]
    /\ adjacency' = Adjacency(SelectActive(rows))
    /\ bfsQueue' = <<<<from_server_id>>>>
    /\ found_paths' = <<>>
    /\ fpc' = "loop"
    /\ UNCHANGED notPaths

(* one turn of the loop of lines 375-388 *)
FindPathsStep ==
    /\ fpc = "loop"
    /\ bfsQueue # <<>> /\ Len(found_paths) < MaxPaths
    /\ LET current_path == Head(bfsQueue)
           current_node == current_path[Len(current_path)]
       IN  IF current_node = pathArgs.to_server_id
           THEN /\ found_paths' = Append(found_paths, current_path)
                /\ bfsQueue' = Tail(bfsQueue)
           ELSE IF Len(current_path) > MaxPathLength
           THEN /\ bfsQueue' = Tail(bfsQueue)
                /\ UNCHANGED found_paths
           ELSE /\ bfsQueue' = Tail(bfsQueue)
                                  \o Extensions(current_path, adjacency[current_node])
                /\ UNCHANGED found_paths
    /\ UNCHANGED <<all_paths, pathArgs, adjacency, fpc, notPaths>>

(* the loop ends (line 375) *)
FindPathsReturn ==
    /\ fpc = "loop"
    /\ bfsQueue = <<>> \/ Len(found_paths) >= MaxPaths
    /\ fpc' = "done"
    /\ UNCHANGED <<all_paths, pathArgs, adjacency, bfsQueue, found_paths, notPaths>>

(* AccessPath rows between the servers; an inactive row leaves the first   *)
(* server                                                                  *)
PathRows ==
    {[source_server_id |-> a, target_server_id |-> b, is_active |-> TRUE] :
        a \in {NULL} \cup Nodes, b \in Nodes}
    \cup {[source_server_id |-> 1, target_server_id |-> b, is_active |-> FALSE] :
        b \in Nodes}

NextFindPaths ==
    \/ fpc = "idle"
          /\ \E rows \in UNION {[1..n -> PathRows] : n \in 0..MaxEdges},
                to_server_id \in Nodes :
                  FindPathsStart(rows, 1, to_server_id)
    \/ FindPathsStep
    \/ FindPathsReturn

(***************************************************************************)
(* The key scan (core/key_scanner.py) and the key inventory of the agent   *)
(* (agent/keyspider_agent.py).  A file of the scanned host is named by its *)
(* path; its content is the content "of" that path.  What a remote command *)
(* prints, and what the agent reads, is recorded in commands.              *)
(***************************************************************************)
HomeDir == "/home/u"

SshDir == HomeDir \o "/.ssh"

(* key_scanner.py line 106 and keyspider_agent.py line 297 *)
AuthorizedKeysNames == <<"authorized_keys", "authorized_keys2">>

(* key_scanner.py line 111 and keyspider_agent.py line 326 *)
identity_patterns == <<"id_rsa.pub", "id_ed25519.pub", "id_ecdsa.pub", "id_dsa.pub">>

(* key_scanner.py line 119 *)
priv_patterns == <<"id_rsa", "id_ed25519", "id_ecdsa", "id_dsa">>

(* key_scanner.py lines 273-278 *)
host_key_patterns ==
    <<"/etc/ssh/ssh_host_rsa_key.pub", "/etc/ssh/ssh_host_ed25519_key.pub",
      "/etc/ssh/ssh_host_ecdsa_key.pub", "/etc/ssh/ssh_host_dsa_key.pub">>

Range(s) == {s[i] : i \in DOMAIN s}

UnderSshDir(names) == [i \in DOMAIN names |-> SshDir \o "/" \o names[i]]

PrivateKeyPaths == Range(UnderSshDir(priv_patterns))

ScannedPaths ==
    Range(UnderSshDir(AuthorizedKeysNames)) \cup Range(UnderSshDir(identity_patterns))
        \cup PrivateKeyPaths \cup Range(host_key_patterns)

NoOutput == [text |-> "", of |-> ""]

(* the content of the file at a path *)
ContentOf(path) == [text |-> "content", of |-> path]

(* pool.run_command on the scanned host: exit status and stdout *)
run_command(files, cmd, path) ==
    IF path \notin files THEN [exit_status |-> 1, stdout |-> NoOutput]
    ELSE IF cmd = "cat" THEN [exit_status |-> 0, stdout |-> ContentOf(path)]
    ELSE IF cmd = "test -f" THEN [exit_status |-> 0, stdout |-> [text |-> "exists", of |-> ""]]
    ELSE [exit_status |-> 0, stdout |-> [text |-> "mode", of |-> ""]]

Ran(files, cmd, path) ==
    [cmd |-> cmd, path |-> path, stdout |-> run_command(files, cmd, path).stdout]

(* calculate_sha256_fingerprint: a fingerprint for public key data, None   *)
(* for anything else                                                       *)
FingerprintOf(data) ==
    IF data.text = "content" /\ data.of \notin PrivateKeyPaths THEN 1 ELSE NULL

InitKeyScan ==
    /\ remoteFiles = {}
    /\ commands = {}
    /\ discovered = <<>>
    /\ scanTodo = <<>>
    /\ sentKeys = {}
    /\ kpc = "idle"

Calls(fn, paths) == [i \in DOMAIN paths |-> [fn |-> fn, file_path |-> paths[i]]]

(* scan_server_keys (lines 36-58) for one home directory: the calls of     *)
(* _scan_user_ssh_dir (lines 105-126) and of _scan_host_keys, in order     *)
ScanServerKeysStart(files) ==
    /\ kpc = "idle"
    /\ remoteFiles' = files
    /\ scanTodo' = Calls("_parse_authorized_keys", UnderSshDir(AuthorizedKeysNames))
                     \o Calls("_read_public_key_file", UnderSshDir(identity_patterns))
                     \o Calls("_check_private_key", UnderSshDir(priv_patterns))
                     \o Calls("_scan_host_keys", host_key_patterns)
    /\ discovered' = <<>>
    /\ commands' = {}
    /\ kpc' = "scanning"
    /\ UNCHANGED <<sentKeys, notScan>>

NextCall(fn) == kpc = "scanning" /\ scanTodo # <<>> /\ Head(scanTodo).fn = fn

(* _get_file_permissions (lines 313-327) *)
_get_file_permissions(files, file_path) ==
    LET result == run_command(files, "stat", file_path)
    IN  IF result.exit_status = 0 THEN result.stdout.text ELSE ""

DiscoveredKey(data, file_path, file_type, owner, perms) ==
    [fingerprint_sha256 |-> FingerprintOf(data), public_key_data |-> data,
     file_path |-> file_path, file_type |-> file_type, unix_owner |-> owner,
     unix_permissions |-> perms]

(* _parse_authorized_keys (lines 129-174), for a file of one key line, and *)
(* _read_public_key_file (lines 177-214): cat the file, then stat it       *)
ReadKeyFile(fn, file_type) ==
    /\ NextCall(fn)
    /\ LET file_path == Head(scanTodo).file_path
           result == run_command(remoteFiles, "cat", file_path)
           ok == result.exit_status = 0
           perms == _get_file_permissions(remoteFiles, file_path)
       IN  /\ commands' = commands \cup {Ran(remoteFiles, "cat", file_path)}
                 \cup (IF ok THEN {Ran(remoteFiles, "stat", file_path)} ELSE {})
           /\ discovered' =
                 IF ok /\ FingerprintOf(result.stdout) # NULL
                 THEN Append(discovered,
                        DiscoveredKey(result.stdout, file_path, file_type, "u", perms))
                 ELSE discovered
    /\ scanTodo' = Tail(scanTodo)
    /\ UNCHANGED <<remoteFiles, sentKeys, kpc, notScan>>

ParseAuthorizedKeys == ReadKeyFile("_parse_authorized_keys", "authorized_keys")

ReadPublicKeyFile == ReadKeyFile("_read_public_key_file", "public_key")

(* a lookup of the key's data in the key file itself *)
SamePath(file_path) == file_path

(* line 237 *)
PubPath(file_path) == file_path \o ".pub"

(* _check_private_key (lines 217-263) *)
CheckPrivateKey ==
    /\ NextCall("_check_private_key")
    /\ LET file_path == Head(scanTodo).file_path
           result == run_command(remoteFiles, "test -f", file_path)
           exists == result.exit_status = 0 /\ result.stdout.text = "exists"
           perms == _get_file_permissions(remoteFiles, file_path)
           pub_path == PubPath(file_path)
           pub_result == run_command(remoteFiles, "cat", pub_path)
           pub_data == IF pub_result.exit_status = 0 /\ pub_result.stdout # NoOutput
                       THEN pub_result.stdout ELSE NoOutput
       IN  /\ commands' = commands \cup {Ran(remoteFiles, "test -f", file_path)}
                 \cup (IF exists
                       THEN {Ran(remoteFiles, "stat", file_path),
                             Ran(remoteFiles, "cat", pub_path)}
                       ELSE {})
           /\ discovered' =
                 IF exists
                 THEN Append(discovered,
                        DiscoveredKey(pub_data, file_path, "private_key", "u", perms))
                 ELSE discovered
    /\ scanTodo' = Tail(scanTodo)
    /\ UNCHANGED <<remoteFiles, sentKeys, kpc, notScan>>

(* one pattern of _scan_host_keys (lines 266-310) *)
ScanHostKeys ==
    /\ NextCall("_scan_host_keys")
    /\ LET path == Head(scanTodo).file_path
           result == run_command(remoteFiles, "cat", path)
           ok == result.exit_status = 0 /\ FingerprintOf(result.stdout) # NULL
       IN  /\ commands' = commands \cup {Ran(remoteFiles, "cat", path)}
                 \cup (IF ok THEN {Ran(remoteFiles, "stat", path)} ELSE {})
           /\ discovered' =
                 IF ok
                 THEN Append(discovered,
                        DiscoveredKey(result.stdout, path, "host_key", "root",
                                      _get_file_permissions(remoteFiles, path)))
                 ELSE discovered
    /\ scanTodo' = Tail(scanTodo)
    /\ UNCHANGED <<remoteFiles, sentKeys, kpc, notScan>>

(* scan_server_keys returns the keys (line 58) *)
ScanServerKeysReturn ==
    /\ kpc = "scanning"
    /\ scanTodo = <<>>
    /\ kpc' = "done"
    /\ UNCHANGED <<remoteFiles, commands, discovered, scanTodo, sentKeys, notScan>>

(* the files KeyspiderAgent.scan_keys and _scan_user_keys read: the        *)
(* ssh_host_*_key.pub of /etc/ssh, then authorized_keys, authorized_keys2  *)
(* and the four .pub identity files of the user's .ssh                     *)
AgentReadPaths ==
    Range(host_key_patterns) \cup Range(UnderSshDir(AuthorizedKeysNames))
        \cup Range(UnderSshDir(identity_patterns))

AgentFileType(path) ==
    IF path \in Range(host_key_patterns) THEN "host_key"
    ELSE IF path \in Range(UnderSshDir(AuthorizedKeysNames)) THEN "authorized_keys"
    ELSE "public_key"

(* KeyspiderAgent.scan_keys (lines 248-292) with _scan_user_keys (lines    *)
(* 295-345): read_text and stat of each file that exists, then the POST of *)
(* the inventory to /api/agent/keys when it is not empty                   *)
AgentScanKeys(files) ==
    /\ kpc = "idle"
    /\ remoteFiles' = files
    /\ LET read == AgentReadPaths \cap files
       IN  /\ commands' = {[cmd |-> "read_text", path |-> p, stdout |-> ContentOf(p)] :
                              p \in read}
                 \cup {[cmd |-> "stat", path |-> p,
                        stdout |-> [text |-> "mode", of |-> ""]] : p \in read}
           /\ sentKeys' = {[public_key_data |-> ContentOf(p), file_path |-> p,
                            file_type |-> AgentFileType(p)] : p \in read}
    /\ kpc' = "sent"
    /\ UNCHANGED <<discovered, scanTodo, notScan>>

NextKeyScan ==
    \/ kpc = "idle"
          /\ \E files \in {f \in SUBSET ScannedPaths : Cardinality(f) <= MaxFiles} :
                \/ ScanServerKeysStart(files)
                \/ AgentScanKeys(files)
    \/ ParseAuthorizedKeys
    \/ ReadPublicKeyFile
    \/ CheckPrivateKey
    \/ ScanHostKeys
    \/ ScanServerKeysReturn

(***************************************************************************)
(* KeyspiderAgent.collect_log_events (agent/keyspider_agent.py) on one log *)
(* path.  The file is logGen (it changes when the log is rotated) and      *)
(* logSize; a byte, and the line it belongs to, is named by the file and   *)
(* its position.  The host appends to the log and rotates it at any time,  *)
(* also between the getsize and the read of a cycle.                       *)
(***************************************************************************)
InitAgentLog ==
    /\ logGen = 1
    /\ logSize = 0
    /\ _log_offsets = 0
    /\ reads = <<>>
    /\ posts = <<>>
    /\ lpc = "idle"
    /\ prev_offset = 0
    /\ cycles = 0

(* sshd or sudo writes a line *)
LogAppend ==
    /\ logSize < MaxLogSize
    /\ logSize' = logSize + 1
    /\ UNCHANGED <<logGen, _log_offsets, reads, posts, lpc, prev_offset, cycles, notLog>>

(* logrotate: the path now names a new file of size new_size *)
LogRotate(new_size) ==
    /\ logGen < MaxRotations + 1
    /\ logGen' = logGen + 1
    /\ logSize' = new_size
    /\ UNCHANGED <<_log_offsets, reads, posts, lpc, prev_offset, cycles, notLog>>

(* a rotation test that never fires *)
SeekStored(file_size, offset) == offset

(* lines 148-151: the offset to read from; 0 when the file shrank *)
SeekOffset(file_size, offset) == IF file_size < offset THEN 0 ELSE offset

(* lines 145-154: getsize, the rotation test and the test for new data *)
CollectStat ==
    /\ lpc = "idle"
    /\ cycles < MaxCycles
    /\ cycles' = cycles + 1
    /\ LET file_size == logSize
           from == SeekOffset(file_size, _log_offsets)
       IN  /\ prev_offset' = from
           /\ lpc' = IF file_size = from THEN "idle" ELSE "open"
    /\ UNCHANGED <<logGen, logSize, _log_offsets, reads, posts, notLog>>

(* f.seek(prev_offset); f.read(); f.tell(): the position after a read that *)
(* starts at or beyond the end of the file is where it started             *)
Tell(from, size) == IF size > from THEN size ELSE from

(* a request that is sent again when it has failed *)
ResendFailed(batch, ok) ==
    IF ok THEN <<batch>> ELSE <<[batch EXCEPT !.ok = FALSE], batch>>

(* _make_request (lines 97-125): one request; an error is logged and None  *)
(* is returned                                                             *)
_make_request(batch, ok) == <<[batch EXCEPT !.ok = ok]>>

(* lines 156-192: read from prev_offset to the end of the file, store the  *)
(* offset, parse the lines and post them when there are any; post_ok is    *)
(* whether the POST succeeds                                               *)
CollectRead(post_ok) ==
    /\ lpc = "open"
    /\ LET to == Tell(prev_offset, logSize)
           batch == [gen |-> logGen, from |-> prev_offset, to |-> to, ok |-> TRUE]
       IN  /\ _log_offsets' = to
           /\ reads' = Append(reads, [gen |-> logGen, from |-> prev_offset, to |-> to])
           /\ posts' = IF to > prev_offset
                       THEN posts \o _make_request(batch, post_ok)
                       ELSE posts
    /\ lpc' = "idle"
    /\ UNCHANGED <<logGen, logSize, prev_offset, cycles, notLog>>

(* lines 180-183: open or read raises; the error is logged, the offset     *)
(* stays                                                                   *)
CollectReadFails ==
    /\ lpc = "open"
    /\ lpc' = "idle"
    /\ UNCHANGED <<logGen, logSize, _log_offsets, reads, posts, prev_offset, cycles,
                   notLog>>

NextAgentLog ==
    \/ LogAppend
    \/ \E new_size \in 0..MaxLogSize : LogRotate(new_size)
    \/ CollectStat
    \/ \E post_ok \in BOOLEAN : CollectRead(post_ok)
    \/ CollectReadFails

(***************************************************************************)
(* LogWatcher                                                              *)
(***************************************************************************)
Consumers == 1..NumConsumers

InitWatcher ==
    /\ _running = FALSE
    /\ _conn = "None"
    /\ _process = "None"
    /\ _callbacks = {}
    /\ _event_queues = {}
    /\ reconnect_delay = WatcherReconnectDelay
    /\ wpc = "idle"
    /\ cpc = [c \in Consumers |-> "new"]
    /\ consumerQueue = [c \in Consumers |-> <<>>]
    /\ stopCalled = FALSE
    /\ exitVia = [c \in Consumers |-> ""]

(* `while self._running` of start(), line 52 *)
LoopCheck == IF _running THEN "connect" ELSE "returned"

(* start() up to its first await (lines 48-54, 72); watch_tasks and the    *)
(* CLI call start() once on each LogWatcher they create.                   *)
WatcherStart ==
    /\ wpc = "idle"
    /\ _running' = TRUE
    /\ reconnect_delay' = WatcherReconnectDelay
    /\ wpc' = "connect"
    /\ UNCHANGED <<_conn, _process, _callbacks, _event_queues, cpc, consumerQueue,
                   stopCalled, exitVia, notWatcher>>

(* asyncssh.connect returns (lines 72-78) *)
WatcherConnected ==
    /\ wpc = "connect"
    /\ _conn' = "open"
    /\ wpc' = "create_process"
    /\ UNCHANGED <<_running, _process, _callbacks, _event_queues, reconnect_delay,
                   cpc, consumerQueue, stopCalled, exitVia, notWatcher>>

(* create_process returns (lines 84-88) *)
WatcherTailing ==
    /\ wpc = "create_process"
    /\ _process' = "open"
    /\ wpc' = "tail"
    /\ UNCHANGED <<_running, _conn, _callbacks, _event_queues, reconnect_delay,
                   cpc, consumerQueue, stopCalled, exitVia, notWatcher>>

(* one parsed line of the tail (lines 90-104): every callback is called;   *)
(* the callback of an iterator is its enqueue (lines 134-135)              *)
Deliver(q, event) == Append(q, event)

TailLine ==
    /\ wpc = "tail"
    /\ \A c \in _callbacks : Len(consumerQueue[c]) < MaxQueue
    /\ IF ~_running
       THEN /\ wpc' = "returned"
            /\ UNCHANGED consumerQueue
       ELSE /\ consumerQueue' = [c \in Consumers |->
                                   IF c \in _callbacks
                                   THEN Deliver(consumerQueue[c], "event")
                                   ELSE consumerQueue[c]]
            /\ UNCHANGED wpc
    /\ UNCHANGED <<_running, _conn, _process, _callbacks, _event_queues,
                   reconnect_delay, cpc, stopCalled, exitVia, notWatcher>>

(* the remote stream ends: _connect_and_tail returns, start() loops        *)
TailEnd ==
    /\ wpc = "tail"
    /\ wpc' = LoopCheck
    /\ UNCHANGED <<_running, _conn, _process, _callbacks, _event_queues,
                   reconnect_delay, cpc, consumerQueue, stopCalled, exitVia,
                   notWatcher>>

(* _connect_and_tail raises (lines 55-57, 64-67) *)
WatcherErrors == {"asyncssh.Error", "Exception"}

AttemptRaises(error) ==
    /\ wpc \in {"connect", "create_process", "tail"}
    /\ wpc' = IF ~_running THEN "returned"
              ELSE IF error = "asyncssh.Error" THEN "sleep"
              ELSE "sleep_unexpected"
    /\ UNCHANGED <<_running, _conn, _process, _callbacks, _event_queues,
                   reconnect_delay, cpc, consumerQueue, stopCalled, exitVia,
                   notWatcher>>

MinOf(a, b) == IF a < b THEN a ELSE b

(* asyncio.sleep(reconnect_delay) returns (lines 62-63, 68) *)
SleepDone ==
    /\ wpc \in {"sleep", "sleep_unexpected"}
    /\ reconnect_delay' = IF wpc = "sleep"
                          THEN MinOf(reconnect_delay * 2, WatcherMaxReconnectDelay)
                          ELSE reconnect_delay
    /\ wpc' = LoopCheck
    /\ UNCHANGED <<_running, _conn, _process, _callbacks, _event_queues, cpc,
                   consumerQueue, stopCalled, exitVia, notWatcher>>

(* the sentinel stop() puts on a queue (lines 111-115); the queues are     *)
(* unbounded, QueueFull is never raised                                    *)
WithoutSentinel(q) == q

WithSentinel(q) == Append(q, "None")

(* stop() (lines 106-123), called on a started watcher *)
WatcherStop ==
    /\ wpc # "idle"
    /\ ~stopCalled
    /\ stopCalled' = TRUE
    /\ _running' = FALSE
    /\ consumerQueue' = [c \in Consumers |->
                            IF c \in _event_queues
                            THEN WithSentinel(consumerQueue[c])
                            ELSE consumerQueue[c]]
    /\ _process' = "None"
    /\ _conn' = "None"
    /\ UNCHANGED <<_callbacks, _event_queues, reconnect_delay, wpc, cpc, exitVia,
                   notWatcher>>

(* the finally of events() (lines 149-154) *)
ConsumerFinish(c, via) ==
    /\ cpc' = [cpc EXCEPT ![c] = "done"]
    /\ exitVia' = [exitVia EXCEPT ![c] = via]
    /\ _callbacks' = _callbacks \ {c}
    /\ _event_queues' = _event_queues \ {c}

(* the first advance of an iterator (lines 131-142) *)
ConsumerStart(c) ==
    /\ cpc[c] = "new"
    /\ IF _running
       THEN /\ cpc' = [cpc EXCEPT ![c] = "waiting"]
            /\ _event_queues' = _event_queues \cup {c}
            /\ _callbacks' = _callbacks \cup {c}
            /\ UNCHANGED exitVia
       ELSE ConsumerFinish(c, "first_check")
    /\ UNCHANGED <<_running, _conn, _process, reconnect_delay, wpc, consumerQueue,
                   stopCalled, notWatcher>>

(* queue.get() returns (lines 142-146) *)
ConsumerGet(c) ==
    /\ cpc[c] = "waiting"
    /\ consumerQueue[c] # <<>>
    /\ consumerQueue' = [consumerQueue EXCEPT ![c] = Tail(@)]
    /\ IF Head(consumerQueue[c]) = "None"
       THEN ConsumerFinish(c, "sentinel")
       ELSE /\ cpc' = [cpc EXCEPT ![c] = "yielded"]
            /\ UNCHANGED <<_callbacks, _event_queues, exitVia>>
    /\ UNCHANGED <<_running, _conn, _process, reconnect_delay, wpc, stopCalled,
                   notWatcher>>

(* wait_for times out after a second (lines 147-148, 140). stop_watcher    *)
(* runs stop() in an event loop of its own (watch_tasks.py lines 27-32),   *)
(* where put_nowait does not wake the loop of the iterator: after stop()   *)
(* the timeout can end the wait although the sentinel is in the queue.     *)
ConsumerTimeout(c) ==
    /\ cpc[c] = "waiting"
    /\ consumerQueue[c] = <<>> \/ stopCalled
    /\ IF _running
       THEN UNCHANGED <<cpc, _callbacks, _event_queues, exitVia>>
       ELSE ConsumerFinish(c, "running")
    /\ UNCHANGED <<_running, _conn, _process, reconnect_delay, wpc, consumerQueue,
                   stopCalled, notWatcher>>

(* the caller asks for the next event (lines 146, 140) *)
ConsumerNext(c) ==
    /\ cpc[c] = "yielded"
    /\ IF _running
       THEN /\ cpc' = [cpc EXCEPT ![c] = "waiting"]
            /\ UNCHANGED <<_callbacks, _event_queues, exitVia>>
       ELSE ConsumerFinish(c, "running")
    /\ UNCHANGED <<_running, _conn, _process, reconnect_delay, wpc, consumerQueue,
                   stopCalled, notWatcher>>

ConsumerStep(c) ==
    \/ ConsumerStart(c)
    \/ ConsumerGet(c)
    \/ ConsumerTimeout(c)
    \/ ConsumerNext(c)

NextWatcher ==
    \/ WatcherStart
    \/ WatcherConnected
    \/ WatcherTailing
    \/ TailLine
    \/ TailEnd
    \/ \E error \in WatcherErrors : AttemptRaises(error)
    \/ SleepDone
    \/ WatcherStop
    \/ \E c \in Consumers : ConsumerStep(c)

(***************************************************************************)
(* Scan jobs: POST /scans and POST /scans/{job_id}/cancel (api/scans.py)   *)
(* and the tasks that run a job (workers/spider_tasks.py lines 35-105,     *)
(* workers/scan_tasks.py lines 42-178).                                    *)
(***************************************************************************)
JobIds == 1..MaxJobs
JobTypes == {"server_scan", "spider_crawl"}

InitJobs ==
    /\ scan_jobs = [j \in JobIds |-> [job_type |-> "", seed_server_id |-> NULL,
                                      status |-> ""]]
    /\ taskPc = [j \in JobIds |-> "none"]

ServerFound(server_id) == \E srv \in servers : srv.id = server_id

SetStatus(j, status) == scan_jobs' = [scan_jobs EXCEPT ![j].status = status]

(* start_scan (api/scans.py lines 14-48): the row is committed as pending  *)
(* and the task dispatched, unless the broker is unavailable               *)
StartScan(j, job_type, seed_server_id, dispatched) ==
    /\ scan_jobs[j].status = ""
    /\ \A i \in JobIds : i < j => scan_jobs[i].status # ""
    /\ scan_jobs' = [scan_jobs EXCEPT ![j] =
                        [job_type |-> job_type, seed_server_id |-> seed_server_id,
                         status |-> "pending"]]
    /\ taskPc' = [taskPc EXCEPT ![j] = IF dispatched THEN "queued" ELSE "none"]
    /\ UNCHANGED notJobs

(* cancel_scan (api/scans.py lines 76-88); a job in another status is     *)
(* answered 400                                                            *)
CancelScan(j) ==
    /\ scan_jobs[j].status \in {"pending", "running"}
    /\ SetStatus(j, "cancelled")
    /\ UNCHANGED <<taskPc, notJobs>>

(* the head of _spider_crawl (spider_tasks.py lines 35-54): the job and   *)
(* the seed server are selected, the job is set to running                 *)
SpiderTaskBegin(j) ==
    /\ taskPc[j] = "queued"
    /\ scan_jobs[j].job_type = "spider_crawl"
    /\ IF ~ServerFound(scan_jobs[j].seed_server_id)
       THEN SetStatus(j, "failed") /\ taskPc' = [taskPc EXCEPT ![j] = "done"]
       ELSE SetStatus(j, "running") /\ taskPc' = [taskPc EXCEPT ![j] = "body"]
    /\ UNCHANGED notJobs

(* the head of _scan_single_server (scan_tasks.py lines 42-53) *)
ScanTaskBegin(j) ==
    /\ taskPc[j] = "queued"
    /\ scan_jobs[j].job_type = "server_scan"
    /\ SetStatus(j, "running")
    /\ taskPc' = [taskPc EXCEPT ![j] = "lookup"]
    /\ UNCHANGED notJobs

(* scan_tasks.py lines 55-84: the server is selected; a fresh agent of    *)
(* the server completes the job without a scan                             *)
ScanTaskLookup(j, agent_fresh) ==
    /\ taskPc[j] = "lookup"
    /\ IF ~ServerFound(scan_jobs[j].seed_server_id)
       THEN SetStatus(j, "failed") /\ taskPc' = [taskPc EXCEPT ![j] = "done"]
       ELSE IF agent_fresh
       THEN SetStatus(j, "completed") /\ taskPc' = [taskPc EXCEPT ![j] = "done"]
       ELSE UNCHANGED scan_jobs /\ taskPc' = [taskPc EXCEPT ![j] = "body"]
    /\ UNCHANGED notJobs

(* the try body of either task and its except branch (spider_tasks.py     *)
(* lines 56-103, scan_tasks.py lines 86-176): the status the task's        *)
(* session holds is set and committed                                      *)
TaskBody(j, raised) ==
    /\ taskPc[j] = "body"
    /\ SetStatus(j, IF raised THEN "failed" ELSE "completed")
    /\ taskPc' = [taskPc EXCEPT ![j] = "done"]
    /\ UNCHANGED notJobs

NextJobs ==
    \/ \E j \in JobIds, job_type \in JobTypes, id \in ServerIds, d \in BOOLEAN :
          StartScan(j, job_type, id, d)
    \/ \E j \in JobIds : CancelScan(j)
    \/ \E j \in JobIds : SpiderTaskBegin(j)
    \/ \E j \in JobIds : ScanTaskBegin(j)
    \/ \E j \in JobIds, agent_fresh \in BOOLEAN : ScanTaskLookup(j, agent_fresh)
    \/ \E j \in JobIds, raised \in BOOLEAN : TaskBody(j, raised)

Init == InitPool /\ InitDb /\ InitEnv /\ InitSpider /\ InitUpsert /\ InitAgent
           /\ InitWatcher /\ InitCalls /\ InitPaths /\ InitKeyScan
           /\ InitAgentLog /\ InitJobs

SpecPool == Init /\ [][NextPool]_vars

SpecTask == Init /\ [][NextTask]_vars

SpecCrawl == Init /\ [][NextCrawl]_vars

SpecScan == Init /\ [][NextScan]_vars

SpecUpsert == Init /\ [][NextUpsert]_vars

SpecAgent == Init /\ [][NextAgent]_vars

SpecAttribution == Init /\ [][NextAttribution]_vars

SpecJobs == Init /\ [][NextJobs]_vars

SpecIngest == Init /\ [][NextIngest]_vars

SpecMtime == Init /\ [][NextMtime]_vars

SpecSeverity == Init /\ [][NextSeverity]_vars

SpecTimestamp == Init /\ [][NextTimestamp]_vars

SpecParseLog == Init /\ [][NextParseLog]_vars

(* the call runs to its return once it has begun *)
SpecFindPaths ==
    Init /\ [][NextFindPaths]_vars /\ WF_vars(FindPathsStep \/ FindPathsReturn)

SpecAgentLog == Init /\ [][NextAgentLog]_vars

SpecKeyScan == Init /\ [][NextKeyScan]_vars

SpecCancel == Init /\ [][NextCancel]_vars /\ WF_vars(EngineSteps)

SpecLastSeen == Init /\ [][NextLastSeen]_vars

SpecTerminate == Init /\ [][NextTerminate]_vars /\ WF_vars(EngineSteps)

SpecShortCircuit == Init /\ [][NextShortCircuit]_vars

(* an iterator that is not suspended at its yield is run by the event      *)
(* loop, and its caller keeps asking for the next event                    *)
SpecWatcher ==
    Init /\ [][NextWatcher]_vars /\ \A c \in Consumers : WF_vars(ConsumerStep(c))

(***************************************************************************)
(* C1: the number of live sessions the pool holds (borrowed plus idle,     *)
(* over all hosts) never exceeds max_connections.                          *)
(***************************************************************************)
C1_TotalWithinMax == TotalSessions <= MaxConnections

(***************************************************************************)
(* C2: the number of sessions the pool holds for one host:port never       *)
(* exceeds per_server_limit.                                               *)
(***************************************************************************)
C2_PerServerWithinLimit == \A k \in Hosts : Len(_pools[k]) <= PerServerLimit

(***************************************************************************)
(* C3: in any crawl a host:port key is added to visited and processed at   *)
(* most once, and an entry deeper than max_depth is discarded when popped, *)
(* never processed and never added to visited.  processLog holds the       *)
(* entries of the current crawl handed to _process_server.                 *)
(***************************************************************************)
C3_VisitedOnceWithinDepth ==
    /\ \A i, j \in DOMAIN processLog :
          i # j => processLog[i].key # processLog[j].key
    /\ \A i \in DOMAIN processLog : processLog[i].depth <= MaxDepth
    /\ visited = {processLog[i].key : i \in DOMAIN processLog}

(* a crawl that has processed three hosts and popped a second entry for    *)
(* one of them, which it skipped                                           *)
C3_Witness ==
    /\ "visited" \in skipLog
    /\ Len(processLog) >= 3

(***************************************************************************)
(* C4: a scan of a host whose log has gained no lines since the previous   *)
(* scan inserts no AccessEvent and leaves the event_count of every         *)
(* AccessPath to that host as it was.                                      *)
(***************************************************************************)
EventCounts(paths, server_id) ==
    {<<p.id, p.event_count>> : p \in {x \in paths : x.target_server_id = server_id}}

NoNewLines(h) == lastScan[h].prev = lastScan[h].len

C4_RescanInsertsNothing ==
    [][(/\ spc = "store_events"
        /\ spc' = "xref"
        /\ NoNewLines(RowById(servers, server).ip_address))
       => /\ access_events' = access_events
          /\ EventCounts(access_paths', server) = EventCounts(access_paths, server)]_vars

(***************************************************************************)
(* C5: after the reconciler has run for host H, with A the keys that have  *)
(* an authorized_keys location on H and U the keys that have an accepted   *)
(* event on H: authorized_keys locations of keys in both are "both", those *)
(* of keys in A only are "authorization", and the access paths to H have   *)
(* is_authorized = (key in A) and is_used = (key in U).                    *)
(***************************************************************************)
ClaimA(H) ==
    {k \in ssh_keys : \E l \in key_locations :
        l.ssh_key_id = k.id /\ l.server_id = H /\ l.file_type = "authorized_keys"}

ClaimU(H) ==
    {k \in ssh_keys : \E e \in access_events :
        e.ssh_key_id = k.id /\ e.target_server_id = H /\ e.event_type = "accepted"}

KeyIn(id, K) == \E k \in K : k.id = id

LocationsReconciled(H) ==
    \A l \in key_locations :
        (l.server_id = H /\ l.file_type = "authorized_keys") =>
            /\ (KeyIn(l.ssh_key_id, ClaimA(H)) /\ KeyIn(l.ssh_key_id, ClaimU(H)))
                  => l.graph_layer = "both"
            /\ (KeyIn(l.ssh_key_id, ClaimA(H)) /\ ~KeyIn(l.ssh_key_id, ClaimU(H)))
                  => l.graph_layer = "authorization"

PathReconciled(p, H) ==
    /\ p.is_authorized = KeyIn(p.ssh_key_id, ClaimA(H))
    /\ p.is_used = KeyIn(p.ssh_key_id, ClaimU(H))

(* as stated: every path to H *)
C5_EveryPathReconciled ==
    spc = "sources" =>
        /\ LocationsReconciled(server)
        /\ \A p \in access_paths :
              p.target_server_id = server => PathReconciled(p, server)

(* C5 as the code has it: the paths to H that name a key; a path without  *)
(* a key (a password login) is not loaded by the reconciler.               *)
C5_KeyedPathsReconciled ==
    spc = "sources" =>
        /\ LocationsReconciled(server)
        /\ \A p \in access_paths :
              (p.target_server_id = server /\ p.ssh_key_id # NULL)
                  => PathReconciled(p, server)

(* the reconciler has promoted a location and set both flags of a keyed    *)
(* path, next to a path without a key                                      *)
C5_Witness ==
    /\ spc = "sources"
    /\ \E l \in key_locations : l.server_id = server /\ l.graph_layer = "both"
    /\ \E p \in access_paths :
          /\ p.target_server_id = server
          /\ p.ssh_key_id # NULL
          /\ p.is_authorized
          /\ p.is_used
    /\ \E p \in access_paths : p.target_server_id = server /\ p.ssh_key_id = NULL

(***************************************************************************)
(* C6: two get_or_create calls made one after the other in a session with  *)
(* the same keys return the same row; the first reports created when no    *)
(* matching row existed, the second reports not created, inserts nothing   *)
(* and returns the row without its own defaults applied.                   *)
(***************************************************************************)
C6_SecondCallFindsFirst ==
    \A s \in Sessions : \A i \in 1..(Len(results[s]) - 1) :
        LET first == results[s][i]
            second == results[s][i + 1]
        IN  (/\ first.key = second.key
             /\ first.outcome = "ok"
             /\ second.outcome = "ok")
            => /\ second.id = first.id
               /\ ~first.existed => first.created
               /\ ~second.created
               /\ second.inserted = 0
               /\ second.value = first.value

(* a session created a row and asked again with other defaults *)
C6_Witness ==
    \E s \in Sessions :
        /\ Len(results[s]) = 2
        /\ results[s][1].outcome = "ok"
        /\ results[s][1].created
        /\ results[s][2].outcome = "ok"
        /\ ~results[s][2].created
        /\ results[s][2].key = results[s][1].key
        /\ results[s][2].defaults # results[s][1].value

(***************************************************************************)
(* C7: get_or_create is an atomic upsert: when the calls of two sessions   *)
(* with the same keys overlap, afterwards exactly one row with those keys  *)
(* exists, both calls have returned it and exactly one reports created.    *)
(***************************************************************************)
C7_AtomicUpsert ==
    \A s, o \in Sessions :
        \A i \in DOMAIN results[s], j \in DOMAIN results[o] :
            (/\ s # o
             /\ <<o, j>> \in results[s][i].peers
             /\ results[s][i].key = results[o][j].key)
            => /\ results[s][i].outcome = "ok"
               /\ results[o][j].outcome = "ok"
               /\ results[s][i].id = results[o][j].id
               /\ results[s][i].created # results[o][j].created
               /\ Cardinality({r \in AllRows : r.key = results[s][i].key}) = 1

(***************************************************************************)
(* C8: once deploy_agent has run again for a server that had an            *)
(* AgentStatus, agent_token_hash is the SHA-256 of the newly generated     *)
(* token, and every request to the receiver that bears the previous token  *)
(* is answered 401.                                                        *)
(***************************************************************************)
C8_RedeployReplacesToken ==
    /\ \A a \in agent_status :
          Len(issued[a.server_id]) >= 2 =>
              a.agent_token_hash = Sha256(issued[a.server_id][Len(issued[a.server_id])])
    /\ (lastRequest.scheme = "Bearer" /\ lastRequest.stale) => lastRequest.status = 401

(* a server was deployed twice and a request with its first token came *)
C8_Witness ==
    /\ \E id \in ServerIds :
          /\ Len(issued[id]) >= 2
          /\ lastRequest.token = issued[id][1]
    /\ lastRequest.scheme = "Bearer"
    /\ lastRequest.stale
    /\ lastRequest.status = 401

(***************************************************************************)
(* C9: a request to any of the four ingestion endpoints that has no        *)
(* Bearer authorization, or whose token's SHA-256 digest is the hash of no *)
(* AgentStatus, is answered 401 and changes no persisted state.            *)
(***************************************************************************)
C9_UnauthorizedChangesNothing ==
    [][(/\ reqCount' = reqCount + 1
        /\ \/ lastRequest'.scheme # "Bearer"
           \/ ~\E a \in agent_status : a.agent_token_hash = Sha256(lastRequest'.token))
       => /\ lastRequest'.status = 401
          /\ UNCHANGED <<tableVars, committed, sudo_events>>]_vars

(* the key inventory endpoint turned away a bearer token that no agent     *)
(* has, while an agent was deployed                                        *)
C9_Witness ==
    /\ agent_status # {}
    /\ lastRequest.endpoint = "keys"
    /\ lastRequest.scheme = "Bearer"
    /\ lastRequest.status = 401

(***************************************************************************)
(* C10: after stop(), every queue registered by events() holds the None    *)
(* sentinel, so that no iterator is left waiting on an empty queue, and    *)
(* every iterator terminates: one waiting takes an item from its queue or  *)
(* times out, one suspended at its yield sees _running false at its next   *)
(* loop check.                                                             *)
(***************************************************************************)
SentinelQueued(c) ==
    \E i \in 1..Len(consumerQueue[c]) : consumerQueue[c][i] = "None"

C10_ConsumersEndAfterStop ==
    /\ [](stopCalled => \A c \in _event_queues : SentinelQueued(c))
    /\ [](stopCalled => \A c \in Consumers :
                            cpc[c] = "waiting" => consumerQueue[c] # <<>>)
    /\ \A c \in Consumers : stopCalled ~> (cpc[c] = "done")

(* stop() ran; one iterator ended on the sentinel, another at its loop     *)
(* check                                                                   *)
C10_Witness ==
    /\ stopCalled
    /\ \E c1, c2 \in Consumers :
          /\ cpc[c1] = "done" /\ exitVia[c1] = "sentinel"
          /\ cpc[c2] = "done" /\ exitVia[c2] = "running"

(***************************************************************************)
(* C11: _process_server takes the agent short-circuit (no pool             *)
(* acquisition, no log or key read, no source followed; last_scanned_at    *)
(* stamped, servers_scanned one more, commit) exactly when the server has  *)
(* prefer_agent set and an active AgentStatus whose last heartbeat is less *)
(* than 300 seconds old; otherwise it goes on to acquire a pooled session. *)
(***************************************************************************)
C11_AgentCovers(srv) ==
    /\ srv.prefer_agent
    /\ \E a \in agent_status :
          /\ a.server_id = srv.id
          /\ a.deployment_status = "active"
          /\ a.last_heartbeat_at # NULL
          /\ clock - a.last_heartbeat_at < 300 * TicksPerSec

C11_IsCur(srv) == srv.ip_address = cur.hostname /\ srv.ssh_port = cur.port

C11_ShortCircuitIff ==
    [][(spc = "upsert" /\ spc' # "upsert") =>
         IF \E srv \in servers : C11_IsCur(srv) /\ C11_AgentCovers(srv)
         THEN /\ spc' = "loop"
              /\ UNCHANGED <<wrapper, events, keys, source_ips, queue, lastScan,
                             poolVars>>
              /\ progress' = [progress EXCEPT !.servers_scanned = @ + 1]
              /\ \A srv \in servers' : C11_IsCur(srv) => srv.last_scanned_at = clock
              /\ committed'.servers = servers'
         ELSE /\ spc' = "connect"
              /\ UNCHANGED <<progress, committed>>]_vars

(* a crawl counted the seed as scanned through its agent, and an earlier   *)
(* crawl had scanned it over SSH                                           *)
C11_Witness ==
    /\ spc = "loop"
    /\ wrapper = NoWrapper
    /\ crawlNo = 2
    /\ progress.servers_scanned = 1
    /\ lastScan[SeedHost].done
    /\ \E srv \in servers : srv.prefer_agent /\ srv.last_scanned_at = clock

(***************************************************************************)
(* C12: release_connection(id) never raises and returns exactly one global *)
(* slot; for an id the pool holds it clears that handle's in_use flag and  *)
(* nothing else, for any other id it leaves the pool map and every in_use  *)
(* flag as they were.                                                      *)
(***************************************************************************)
C12_Released(c) ==
    /\ pc[c] = "holding"
    /\ pc'[c] = "idle"
    /\ lastRelease' = [id |-> held[c], known |-> held[c] \in PooledIds]
    /\ held[c] \in PooledIds => held[c] \in PooledIds'

C12_ReleaseFrame ==
    [][\A c \in Callers : C12_Released(c) =>
          /\ _semaphore' = _semaphore + 1
          /\ lastError' = lastError
          /\ closed' = closed
          /\ \A k \in Hosts :
                /\ Len(_pools'[k]) = Len(_pools[k])
                /\ \A i \in 1..Len(_pools[k]) :
                      /\ _pools'[k][i].id = _pools[k][i].id
                      /\ _pools'[k][i].in_use =
                            (_pools[k][i].in_use /\ _pools[k][i].id # held[c])]_vars

(* an id the pool no longer holds was released while another handle was    *)
(* borrowed: its flag stayed set and the slot came back                    *)
C12_Witness ==
    /\ lastRelease.id # NoWrapper
    /\ ~lastRelease.known
    /\ \E k \in Hosts : \E i \in 1..Len(_pools[k]) : _pools[k][i].in_use
    /\ \E c \in Callers : pc[c] = "holding" /\ held[c] \in PooledIds

(***************************************************************************)
(* C13: no pool operation does network I/O (the `echo ok` health check,    *)
(* opening a session, closing a session) while it holds the pool lock.     *)
(***************************************************************************)
C13_NetworkIo == {"echo ok", "connect", "conn.close"}

C13_NoIoUnderLock == underLock \cap C13_NetworkIo = {}

(***************************************************************************)
(* C14: close_all leaves the pool map empty with every session it held     *)
(* closed, and no caller holds as borrowed a session that close_all        *)
(* closed: a task closes its pool only after its borrowers are done.       *)
(***************************************************************************)
C14_NothingBorrowedAcrossCloseAll ==
    /\ [](\A c \in Callers : pc[c] \in {"holding", "health"} =>
              held[c] \notin closed /\ candidate[c] \notin closed)
    /\ [][(PoolClosed' /\ ~PoolClosed) =>
              /\ PooledIds' = {}
              /\ PooledIds \subseteq closed'
              /\ \A k \in Hosts : \A i \in 1..Len(_pools[k]) : ~_pools[k][i].in_use]_vars

(* the task borrowed and returned sessions of two hosts, then closed its   *)
(* pool                                                                    *)
C14_Witness ==
    /\ PoolClosed
    /\ Cardinality(closed) >= 2
    /\ lastRelease.known

(***************************************************************************)
(* C15: every AccessEvent that a commit of the spider, the receiver or the *)
(* watcher makes durable has ssh_key_id = K exactly when an SSHKey K with  *)
(* the event's non-null fingerprint is durable at that commit, and a set   *)
(* ssh_key_id references a key of the event's fingerprint.                 *)
(***************************************************************************)
C15_KeyOf(e, keys_) == {k \in keys_ : e.fingerprint # NULL
                                        /\ k.fingerprint_sha256 = e.fingerprint}

C15_EventKeyMatchesAtCommit ==
    [][\A e \in committed'.access_events \ committed.access_events :
          /\ \A k \in C15_KeyOf(e, committed'.ssh_keys) : e.ssh_key_id = k.id
          /\ e.ssh_key_id # NULL =>
                \E k \in C15_KeyOf(e, committed'.ssh_keys) : k.id = e.ssh_key_id]_vars

(***************************************************************************)
(* C16: after any scans and key inventories, the file_mtime of an SSHKey   *)
(* never increases once it is set, and it is at most the file_mtime of     *)
(* every KeyLocation of the key (so it is the oldest mtime observed).      *)
(***************************************************************************)
C16_OldestOfLocations ==
    \A k \in committed.ssh_keys, l \in committed.key_locations :
        (l.ssh_key_id = k.id /\ l.file_mtime # NULL)
            => (k.file_mtime # NULL /\ k.file_mtime <= l.file_mtime)

C16_NeverIncreases ==
    \A k \in committed.ssh_keys, n \in committed'.ssh_keys :
        (n.id = k.id /\ k.file_mtime # NULL)
            => (n.file_mtime # NULL /\ n.file_mtime <= k.file_mtime)

C17_AuthorizedLayers ==
    \A l \in key_locations \cup committed.key_locations :
        l.file_type = "authorized_keys" => l.graph_layer \in {"authorization", "both"}

C17_PromotedByReconciler ==
    \A n \in key_locations' :
        (/\ n.file_type = "authorized_keys"
         /\ n.graph_layer = "both"
         /\ ~\E l \in key_locations : l.id = n.id /\ l.graph_layer = "both")
            => (/\ spc = "xref"
                /\ spc' = "sources"
                /\ n.server_id = server
                /\ n.ssh_key_id \in AuthorizedKeyIds(server) \cap UsedKeyIds(server))

C17_AuthorizedKeysLayer ==
    [](C17_AuthorizedLayers) /\ [][C17_PromotedByReconciler]_vars

C17_Witness ==
    /\ \E l \in committed.key_locations :
          l.file_type = "authorized_keys" /\ l.graph_layer = "both"
    /\ reqCount > 0

(***************************************************************************)
(* C18: when the processing of a frontier host fails after some of its     *)
(* writes were staged, the crawl goes on with the next entry and none of   *)
(* the rows the failed host had staged is ever committed, not even by the  *)
(* commit of a later host of the same crawl.                               *)
(***************************************************************************)
C18_FailedWritesNotCommitted ==
    \A w \in failedWrites :
        /\ w.table = "key_locations" => w.row \notin committed.key_locations
        /\ w.table = "access_events" => w.row \notin committed.access_events
        /\ w.table = "servers" => w.row \notin committed.servers

(***************************************************************************)
(* C19: classify_severity returns the first matching rule: critical when   *)
(* the username is root and a fingerprint is present; else high when a     *)
(* fingerprint is present and the address is outside 10/8, 172.16/12,      *)
(* 192.168/16 and fc00::/7; else medium when a fingerprint is present and  *)
(* the address is in one of them; else low.                                *)
(***************************************************************************)
C19_InListedRanges(ip) ==
    \/ ip.version = 4 /\ ip.packed[1] = 10
    \/ ip.version = 4 /\ ip.packed[1] = 172 /\ ip.packed[2] \in 16..31
    \/ ip.version = 4 /\ ip.packed[1] = 192 /\ ip.packed[2] = 168
    \/ ip.version = 6 /\ ip.packed[1] \in {252, 253}

C19_Expected(c) ==
    IF c.username = "root" /\ c.fingerprint # NULL THEN "critical"
    ELSE IF c.fingerprint # NULL /\ ~C19_InListedRanges(c.source_ip) THEN "high"
    ELSE IF c.fingerprint # NULL THEN "medium"
    ELSE "low"

C19_FirstMatchingRule ==
    classified.severity # "" => classified.severity = C19_Expected(classified)

C19_Witness ==
    /\ classified.severity = "high"
    /\ classified.source_ip = V4(172, 32)
    /\ classified.username = "admin"

(***************************************************************************)
(* C20: for a line stamped p in the reference year Y and a last_timestamp, *)
(* the year produced is Y - 1 exactly when last_timestamp - p is more than *)
(* 300 days as an exact duration (300 days and a fraction of a day         *)
(* included), and Y otherwise.                                             *)
(***************************************************************************)
C20_MoreThan300Days(c) ==
    /\ c.last_timestamp # NoTime
    /\ Delta(c.last_timestamp, [year |-> ReferenceYear, t |-> c.ts])
          > 300 * UnitsPerDay

C20_YearRollover ==
    parsed.year # 0 =>
        parsed.year = IF C20_MoreThan300Days(parsed) THEN ReferenceYear - 1
                      ELSE ReferenceYear

(***************************************************************************)
(* C21: parse_log hands the timestamp of each event to the parse of the    *)
(* next line, and for a log in the order of time that crosses a year       *)
(* boundary (December lines, then January lines) the timestamps of the     *)
(* events returned never decrease.                                         *)
(***************************************************************************)
C21_NotAfter(a, b) == a.year < b.year \/ (a.year = b.year /\ a.t <= b.t)

C21_CrossesYear(c) ==
    /\ \E i \in 1..Len(c) : c[i] < 0
    /\ \E i \in 1..Len(c) : c[i] >= 0

C21_MonotoneAcrossYear ==
    C21_CrossesYear(parsedLog.content) =>
        \A i \in 1..(Len(parsedLog.timestamps) - 1) :
            C21_NotAfter(parsedLog.timestamps[i], parsedLog.timestamps[i + 1])

(***************************************************************************)
(* C22: find_paths(src, dst) returns at most MaxPaths paths; every path    *)
(* returned starts at src, ends at dst, repeats no server, has each        *)
(* consecutive pair joined by an active AccessPath in that direction and   *)
(* has at most MaxPathLength hops; the paths come in non-decreasing        *)
(* length, and the search ends on every graph, cyclic ones included.       *)
(***************************************************************************)
C22_Joined(a, b) ==
    \E i \in 1..Len(all_paths) :
        /\ all_paths[i].is_active
        /\ all_paths[i].source_server_id = a
        /\ all_paths[i].target_server_id = b

C22_PathOk(path) ==
    /\ path[1] = pathArgs.from_server_id
    /\ path[Len(path)] = pathArgs.to_server_id
    /\ \A i, j \in 1..Len(path) : i # j => path[i] # path[j]
    /\ \A i \in 1..(Len(path) - 1) : C22_Joined(path[i], path[i + 1])
    /\ Len(path) - 1 <= MaxPathLength

C22_Returned ==
    /\ Len(found_paths) <= MaxPaths
    /\ \A k \in 1..Len(found_paths) : C22_PathOk(found_paths[k])
    /\ \A k \in 1..(Len(found_paths) - 1) :
          Len(found_paths[k]) <= Len(found_paths[k + 1])

C22_FindPaths == [](C22_Returned) /\ (fpc = "loop" ~> fpc = "done")

C22_Witness ==
    /\ fpc = "done"
    /\ Len(found_paths) = MaxPaths
    /\ Len(found_paths[MaxPaths]) = MaxPathLength + 1

(***************************************************************************)
(* C23: neither the key scanner nor the agent reads, stores or transmits   *)
(* the content of a private-key file (id_rsa, id_ed25519, id_ecdsa, id_dsa *)
(* under the user's .ssh): no command output, no discovered key and no     *)
(* posted inventory item carries the content of such a file, the only      *)
(* commands run on one are the existence test and stat, and a private_key  *)
(* record holds nothing or the content of the adjacent .pub file.          *)
(***************************************************************************)
C23_PrivateKeyRecordOk(dk) ==
    dk.file_type = "private_key" =>
        /\ dk.file_path \in PrivateKeyPaths
        /\ dk.public_key_data \in {NoOutput, ContentOf(dk.file_path \o ".pub")}
        /\ dk.unix_permissions \in {"", "mode"}

C23_NoPrivateKeyContent ==
    /\ \A c \in commands :
          /\ c.stdout.of \notin PrivateKeyPaths
          /\ c.path \in PrivateKeyPaths => c.cmd \in {"test -f", "stat"}
    /\ \A i \in DOMAIN discovered :
          /\ discovered[i].public_key_data.of \notin PrivateKeyPaths
          /\ C23_PrivateKeyRecordOk(discovered[i])
    /\ \A k \in sentKeys : k.public_key_data.of \notin PrivateKeyPaths

C23_Witness ==
    /\ kpc = "done"
    /\ \E i \in DOMAIN discovered :
          /\ discovered[i].file_type = "private_key"
          /\ discovered[i].public_key_data # NoOutput
    /\ \E c \in commands : c.path \in PrivateKeyPaths /\ c.cmd = "stat"

(***************************************************************************)
(* C24: once cancel() has been called on a SpiderEngine no frontier entry  *)
(* is popped and no further server is started by that engine (entries may  *)
(* still be appended by the server in progress), and the crawl returns.    *)
(***************************************************************************)
C24_IsPrefix(s, t) == Len(s) <= Len(t) /\ SubSeq(t, 1, Len(s)) = s

C24_NoPopAfterCancel ==
    [][(_cancelled /\ crawlNo' = crawlNo) =>
          /\ C24_IsPrefix(queue, queue')
          /\ visited' = visited
          /\ processLog' = processLog
          /\ skipLog' = skipLog
          /\ _cancelled']_vars

C24_CancelStopsCrawl ==
    C24_NoPopAfterCancel /\ ((_cancelled /\ spc # "idle") ~> (spc = "idle"))

C24_Witness == _cancelled /\ spc = "idle" /\ queue # <<>> /\ Len(processLog) = 1

(***************************************************************************)
(* C25: a host for which acquiring the pooled session failed is marked     *)
(* unreachable on the spider's next touch of it: when _process_server has  *)
(* upserted the Server row of such a host again, the row has               *)
(* is_reachable = FALSE.                                                   *)
(***************************************************************************)
C25_FailedHostMarkedUnreachable ==
    (spc = "connect" /\ server \in connectFailed) =>
        ~RowById(servers, server).is_reachable

(***************************************************************************)
(* C26: each source IP of a scanned server at depth d is handled in        *)
(* exactly one of three ways.  A known Server is appended to the frontier  *)
(* at depth d+1 (as stated: always; in the code: unless its ip:port is     *)
(* already visited, in which case nothing changes); an unknown reachable   *)
(* one gets a Server row with discovered_via = scan and is appended at     *)
(* d+1; an unknown unreachable one leaves exactly one UnreachableSource    *)
(* row for (source_ip, target server, fingerprint NULL) and adds one to    *)
(* unreachable_found.                                                      *)
(***************************************************************************)
C26_Entry(ip, port) == [hostname |-> ip, port |-> port, depth |-> cur.depth + 1]

C26_Known(ip) == {s \in servers : s.ip_address = ip}

C26_KnownEnqueued(ip) ==
    /\ C26_Known(ip) # {}
    /\ \E s \in C26_Known(ip) : queue' = Append(queue, C26_Entry(ip, s.ssh_port))
    /\ UNCHANGED <<servers, unreachable_sources, progress>>

C26_IsVisited(ip) == \E s \in C26_Known(ip) : ServerKey(ip, s.ssh_port) \in visited

C26_KnownVisited(ip) ==
    /\ C26_IsVisited(ip)
    /\ UNCHANGED <<queue, servers, unreachable_sources, progress>>

C26_NewServer(ip) ==
    /\ C26_Known(ip) = {}
    /\ \E s \in servers' :
          /\ servers' = servers \cup {s}
          /\ s \notin servers
          /\ s.ip_address = ip /\ s.discovered_via = "scan"
    /\ queue' = Append(queue, C26_Entry(ip, DefaultPort))
    /\ UNCHANGED <<unreachable_sources, progress>>

C26_Unreachable(ip) ==
    /\ C26_Known(ip) = {}
    /\ Cardinality({u \in unreachable_sources' :
                       /\ u.source_ip = ip
                       /\ u.target_server_id = server
                       /\ u.fingerprint = NULL}) = 1
    /\ progress' = [progress EXCEPT !.unreachable_found = @ + 1]
    /\ UNCHANGED <<queue, servers>>

C26_Handles == spc = "sources" /\ spc' = "sources" /\ source_ips' # source_ips

C26_Handled == CHOOSE ip \in source_ips : ip \notin source_ips'

C26_EverySourceEnqueuedOrFlagged ==
    [][C26_Handles =>
          \/ C26_KnownEnqueued(C26_Handled)
          \/ C26_NewServer(C26_Handled)
          \/ C26_Unreachable(C26_Handled)]_vars

C26_UnvisitedSourceEnqueuedOrFlagged ==
    [][C26_Handles =>
          \/ C26_KnownEnqueued(C26_Handled) /\ ~C26_IsVisited(C26_Handled)
          \/ C26_KnownVisited(C26_Handled)
          \/ C26_NewServer(C26_Handled)
          \/ C26_Unreachable(C26_Handled)]_vars

C26_Witness ==
    /\ \E u \in unreachable_sources : u.fingerprint = NULL
    /\ progress.unreachable_found = 1
    /\ \E s \in servers : s.discovered_via = "scan"
    /\ \E i \in DOMAIN queue : queue[i].depth = 1

(***************************************************************************)
(* C27: during a crawl with a progress callback, every pop of a frontier   *)
(* entry is followed by one call of the callback, also when the popped     *)
(* entry is skipped as visited or as deeper than max_depth.                *)
(***************************************************************************)
C27_Pops == spc = "loop" /\ crawlNo' = crawlNo /\ queue # <<>> /\ queue' = Tail(queue)

C27_NotifiedAfterEveryPop == [][C27_Pops => notified' = notified + 1]_vars

(***************************************************************************)
(* C28: AccessPath.last_seen_at never decreases.  Whenever an accepted     *)
(* event of the batch that _store_events is about to store hits an         *)
(* existing path, the path's last_seen_at is not set to a value earlier    *)
(* than the one it has at that point of the loop, whatever the order of    *)
(* the timestamps in the batch.                                            *)
(***************************************************************************)
C28_NotEarlier(before, after) ==
    \A p \in before : \A q \in after :
        q.id = p.id => q.last_seen_at >= p.last_seen_at

C28_LastSeenNeverSetEarlier ==
    spc = "store_events" =>
        \A i \in 1..Len(events) :
            LET before == StorePathList(access_paths, SubSeq(events, 1, i - 1), server)
            IN  C28_NotEarlier(before, StoreOnePath(before, events[i], server))

(***************************************************************************)
(* C29: an events payload accepted from an agent has the persisted effect  *)
(* the spider has for the same events: every accepted event stored with    *)
(* log_source = agent has its AccessPath (same source server, target, key  *)
(* and user) in the committed tables.                                      *)
(***************************************************************************)
C29_PathOf(e, paths) ==
    {p \in paths :
        /\ p.target_server_id = e.target_server_id
        /\ p.source_server_id = e.source_server_id
        /\ p.ssh_key_id = e.ssh_key_id
        /\ p.username = e.username}

C29_AgentEventsUpsertPaths ==
    \A e \in committed.access_events :
        (e.log_source = "agent" /\ e.event_type = "accepted") =>
            C29_PathOf(e, committed.access_paths) # {}

(***************************************************************************)
(* C30: while the LogWatcher is running, the end of a tail session is      *)
(* followed by a backoff sleep before the next connect, and each sleep     *)
(* leaves the delay at min(previous * 2, maximum), never above the         *)
(* maximum.                                                                *)
(***************************************************************************)
C30_TailSessionEnds == wpc = "tail" /\ wpc' # "tail" /\ _running

C30_SleepEnds == wpc \in {"sleep", "sleep_unexpected"} /\ wpc' \notin {"sleep", "sleep_unexpected"}

C30_BackoffAfterEveryTail ==
    [][/\ C30_TailSessionEnds => wpc' \in {"sleep", "sleep_unexpected"}
       /\ C30_SleepEnds =>
             /\ reconnect_delay' = MinOf(reconnect_delay * 2, WatcherMaxReconnectDelay)
             /\ reconnect_delay' <= WatcherMaxReconnectDelay]_vars

(***************************************************************************)
(* C31: when a running LogWatcher receives a line of the tail, the         *)
(* reconnect delay is back at its initial value, so that the next failure  *)
(* sleeps the initial delay and not the doubled one.                       *)
(***************************************************************************)
C31_LineReceived ==
    /\ wpc = "tail" /\ wpc' = "tail"
    /\ _running /\ _running'
    /\ \E c \in Consumers : Len(consumerQueue'[c]) > Len(consumerQueue[c])

C31_DelayResetOnLine ==
    [][C31_LineReceived => reconnect_delay' = WatcherReconnectDelay]_vars

(***************************************************************************)
(* C32: once stop() has been called on a started LogWatcher and start()    *)
(* has returned, the watcher holds no open SSH session and no tail         *)
(* process, wherever the watcher was when stop() arrived.                  *)
(***************************************************************************)
C32_NothingOpenAfterStop ==
    (stopCalled /\ wpc = "returned") => (_conn = "None" /\ _process = "None")

(***************************************************************************)
(* C33: on each collect cycle of the agent, a file smaller than the stored *)
(* offset is read again from byte 0, a file as long as the offset is not   *)
(* read, and otherwise the bytes from the stored offset to the end of the  *)
(* file are read; after a read the stored offset is the end of what was    *)
(* read.  No byte of a file is read twice, and the offset decreases only   *)
(* when the log was rotated: never while a file of which bytes have been   *)
(* read is still the log.                                                  *)
(***************************************************************************)
C33_Bytes(r) == {<<r.gen, p>> : p \in r.from..(r.to - 1)}

C33_NoByteReadTwice ==
    \A i \in DOMAIN reads : \A j \in DOMAIN reads :
        i # j => C33_Bytes(reads[i]) \cap C33_Bytes(reads[j]) = {}

C33_Stat ==
    (lpc = "idle" /\ cycles' # cycles) =>
        /\ logSize < _log_offsets => prev_offset' = 0
        /\ logSize = _log_offsets => (lpc' = "idle" /\ reads' = reads)
        /\ logSize > _log_offsets => (prev_offset' = _log_offsets /\ lpc' = "open")
        /\ (logSize < _log_offsets /\ logSize > 0) => lpc' = "open"

C33_Read ==
    (lpc = "open" /\ reads' # reads) =>
        LET r == reads'[Len(reads')]
        IN  /\ reads' = Append(reads, r)
            /\ r.gen = logGen /\ r.from = prev_offset
            /\ r.to = (IF logSize > prev_offset THEN logSize ELSE prev_offset)
            /\ _log_offsets' = r.to

C33_OffsetKept ==
    _log_offsets' < _log_offsets =>
        \A i \in DOMAIN reads : reads[i].gen = logGen => C33_Bytes(reads[i]) = {}

C33_OffsetsAndReads ==
    [](C33_NoByteReadTwice) /\ [][C33_Stat /\ C33_Read /\ C33_OffsetKept]_vars

C33_Witness ==
    /\ Len(reads) >= 2
    /\ reads[2].from = 0 /\ reads[2].to > 0
    /\ reads[2].gen > reads[1].gen
    /\ reads[1].to > reads[2].to
    /\ _log_offsets = reads[2].to

(***************************************************************************)
(* C40: the agent posts each log line it reads at most once.  No byte of a *)
(* file is in two posted batches, whether the POST succeeded or not; the   *)
(* read that produces a batch stores the new offset whatever becomes of    *)
(* the POST, and the cycle ends normally.                                  *)
(***************************************************************************)
C40_PostedOnce ==
    \A i \in DOMAIN posts : \A j \in DOMAIN posts :
        i # j => C33_Bytes(posts[i]) \cap C33_Bytes(posts[j]) = {}

C40_PostStep ==
    posts' # posts =>
        LET b == posts'[Len(posts')]
        IN  /\ posts' = Append(posts, b)
            /\ b.from = prev_offset
            /\ _log_offsets' = b.to
            /\ lpc' = "idle"

C40_AtMostOncePosted == [](C40_PostedOnce) /\ [][C40_PostStep]_vars

C40_Witness ==
    \E i \in DOMAIN posts : \E j \in DOMAIN posts :
        /\ i < j
        /\ ~posts[i].ok /\ posts[j].ok
        /\ posts[j].gen = posts[i].gen
        /\ posts[j].from = posts[i].to

(***************************************************************************)
(* C34: a get_connection that raises never consumes a global slot: the     *)
(* free slots of the semaphore are max_connections less the calls in       *)
(* flight and the handles lent, so that after a failed call as many slots  *)
(* are free as before it.                                                  *)
(***************************************************************************)
C34_SlotsInUse == Cardinality({c \in Callers : pc[c] # "idle"})

C34_FailedAcquireKeepsSlots == _semaphore = MaxConnections - C34_SlotsInUse

(***************************************************************************)
(* C35: a pooled handle is never lent to two callers at once: the handle a *)
(* caller holds, or is health-checking as its candidate, is neither held   *)
(* nor health-checked by any other caller.                                 *)
(***************************************************************************)
C35_Has(c) == {held[c], candidate[c]} \ {NoWrapper}

C35_NeverLentTwice ==
    \A c1 \in Callers : \A c2 \in Callers :
        c1 # c2 => C35_Has(c1) \cap C35_Has(c2) = {}

C35_Witness ==
    \E c1 \in Callers : \E c2 \in Callers :
        /\ c1 # c2
        /\ pc[c1] = "health" /\ lastRelease.id = candidate[c1]
        /\ pc[c2] \in {"create", "holding"}
        /\ host[c2] = host[c1]

(***************************************************************************)
(* C36: every pooled session _process_server acquires is released exactly  *)
(* once, when the server is done and when a step of its processing raises; *)
(* when the server is done its commit comes before the release.  While a   *)
(* server is processed its session is acquired and not released; when      *)
(* crawl is back at its loop the session of the last server has been       *)
(* released once, after the commit if there was one.                       *)
(***************************************************************************)
C36_Processing ==
    spc \in {"logs", "keys", "store_keys", "store_events", "xref", "sources"}

C36_Released ==
    {<<>>, <<"get_connection", "commit", "release_connection">>,
     <<"get_connection", "release_connection">>}

C36_State ==
    /\ C36_Processing => (sessionLog = <<"get_connection">> /\ wrapper # NULL)
    /\ ~C36_Processing => (sessionLog \in C36_Released /\ wrapper = NULL)

C36_Done ==
    progress'.servers_scanned > progress.servers_scanned /\ C36_Processing

C36_ReleasedExactlyOnce ==
    /\ [](C36_State)
    /\ [][C36_Done =>
            sessionLog' = <<"get_connection", "commit", "release_connection">>]_vars

C36_Witness ==
    /\ sessionLog = <<"get_connection", "release_connection">>
    /\ failedWrites # {}
    /\ progress.servers_scanned = 1

(***************************************************************************)
(* C37: a crawl over a finite set of hosts terminates: a crawl that has    *)
(* started eventually returns, whatever the hosts list as sources in their *)
(* logs, and it hands each host:port to _process_server at most once.      *)
(***************************************************************************)
C37_ProcessedOnce ==
    \A i \in DOMAIN processLog : \A j \in DOMAIN processLog :
        i # j => processLog[i].key # processLog[j].key

C37_CrawlTerminates ==
    [](C37_ProcessedOnce) /\ ((spc # "idle") ~> (spc = "idle"))

C37_Witness ==
    /\ spc = "idle"
    /\ Len(processLog) >= 2
    /\ queue = <<>>
    /\ \E a \in Hosts : \E b \in Hosts :
          /\ a # b
          /\ \E i \in DOMAIN hostLog[a] : hostLog[a][i].source_ip = b
          /\ \E i \in DOMAIN hostLog[b] : hostLog[b][i].source_ip = a


(***************************************************************************)
(* C38: every AccessEvent, SudoEvent and KeyLocation that the agent        *)
(* receiver writes carries the server the request's token was issued for,  *)
(* whatever server_id the payload names: a request with the same token and *)
(* body but another payload server_id leads to the same persisted state.   *)
(***************************************************************************)
(* the rows a step of the receiver adds *)
C38_NewRows ==
    {r.target_server_id : r \in access_events' \ access_events}
        \cup {r.server_id : r \in (sudo_events' \ sudo_events)
                                  \cup (key_locations' \ key_locations)}

C38_FiledUnderTokenServer ==
    (lastRequest' # lastRequest \/ reqCount' # reqCount)
        => C38_NewRows \subseteq {TokenServer(lastRequest'.token)}

(* the request of a step is told by what the endpoint records of it *)
C38_PayloadServerIgnored ==
    LET auth == [scheme |-> lastRequest'.scheme, token |-> lastRequest'.token]
        endpoint == lastRequest'.endpoint
    IN  reqCount' # reqCount =>
        /\ endpoint = "events" =>
              \A payload \in EventPayloads, id \in ServerIds :
                  AgentEvents(auth, payload)
                      => AgentEvents(auth, [payload EXCEPT !.server_id = id])
        /\ endpoint = "sudo-events" =>
              \A payload \in SudoPayloads, id \in ServerIds :
                  AgentSudoEvents(auth, payload)
                      => AgentSudoEvents(auth, [payload EXCEPT !.server_id = id])
        /\ endpoint = "keys" =>
              \A payload \in KeyPayloads, id \in ServerIds :
                  AgentKeys(auth, payload)
                      => AgentKeys(auth, [payload EXCEPT !.server_id = id])

C38_RowsAttributedToTokenServer ==
    [][C38_FiledUnderTokenServer /\ C38_PayloadServerIgnored]_vars

(* rows of each kind were accepted from an agent that named another       *)
(* server than its own in every payload                                    *)
C38_Witness ==
    /\ agent_status # {}
    /\ \E r \in access_events : r.log_source = "agent"
    /\ sudo_events # {}
    /\ key_locations # {}
    /\ lastRequest.status = 200

(***************************************************************************)
(* C39: a ScanJob whose status was set to cancelled stays cancelled: no    *)
(* later step of the task that runs or is queued for the job sets its      *)
(* status to running, completed or failed.                                 *)
(***************************************************************************)
C39_CancelledStaysCancelled ==
    [][\A j \in JobIds :
          scan_jobs[j].status = "cancelled" => scan_jobs'[j].status = "cancelled"]_vars
====
